---- MODULE Spec2Model ----
(***************************************************************************)
(* A model of the scan-cache and resilient-extraction pipeline of          *)
(* devops-captain/Ai-Ops-Ci-CD.                                            *)
(*                                                                         *)
(*   Part I   ComplianceScanner (src/src/compliance_scanner.py): the       *)
(*            content-addressed file cache and scan_file.  Specification   *)
(*            Spec.                                                        *)
(*   Part II  PureAISecurityAnalyzer (src/security_analyzer.py): the       *)
(*            extraction chain of ai_analyze_and_fix and the write gate    *)
(*            of apply_ai_fixes.  Specification SpecFix.                   *)
(*   Part III ComplianceScanner.run: the candidate files, the scan loop,   *)
(*            the report and the saving of the cache.  Specification       *)
(*            SpecRun.                                                     *)
(*   Part IV  Two runs of ComplianceScanner that share the global cache    *)
(*            object of load_cache and save_cache.  Specification          *)
(*            SpecShared.                                                  *)
(*                                                                         *)
(* Python's None, a missing file and a missing dictionary key are records  *)
(* of their own, so that every comparison is between records.              *)
(***************************************************************************)
EXTENDS Integers, Sequences, FiniteSets, TLC

VARIABLES
    disk,          \* scanner: path -> content of the file, or NoFile
    file_cache,    \* scanner: self.file_cache, path -> entry or NoEntry
    cache_store,   \* scanner: the persisted cache (.compliance_cache.json)
    ai_calls,      \* scanner: self.ai_calls
    total_cost,    \* scanner: self.total_cost, in units of 1/(4*10^8) dollar
    scans,         \* scanner: scan_file calls made so far (also the clock)
    edits,         \* scanner: changes made to the working tree so far
    unmodified,    \* scanner: paths scanned and not modified since
    persisted_unmodified, \* scanner: the same, as of the last save_cache
    last,          \* scanner: what the last scan_file call did
    fs,            \* analyzer: path -> content of the file
    api_calls,     \* analyzer: self.api_calls
    fixes_applied, \* analyzer: self.fixes_applied
    pending,       \* analyzer: files of run() not yet processed
    lastfix,       \* analyzer: what the last apply_ai_fixes call did
    run,           \* scanner: the position and the locals of run()
    peers          \* two scanner processes on one global cache object

scan_vars == <<disk, file_cache, cache_store, ai_calls, total_cost,
               scans, edits, unmodified, persisted_unmodified, last>>
fix_vars == <<fs, api_calls, fixes_applied, pending, lastfix>>
run_vars == <<run>>
peer_vars == <<peers>>
vars == <<scan_vars, fix_vars, run_vars, peer_vars>>

None == [kind |-> "None"]
NoFile == [kind |-> "NoFile"]
NoEntry == [kind |-> "NoEntry"]

(***************************************************************************)
(* Bounds of the model.                                                    *)
(***************************************************************************)
MaxScans == 2
MaxEdits == 1

(***************************************************************************)
(*                    Part I: ComplianceScanner                            *)
(***************************************************************************)

(* File contents.  A content is identified by id and todo; len is          *)
(* len(code), striplen is len(code.strip()), compiles is whether compile() *)
(* accepts it, deps whether extract_dependencies finds a dependency in it, *)
(* unpinned whether it holds an unpinned require()/FROM line, framework    *)
(* the framework token found in code.lower(), todo whether                 *)
(* fix_vulnerabilities has put its TODO comment on the dependency line.    *)
CodeA ==
    [kind |-> "Content", id |-> "a", len |-> 120, striplen |-> 118,
     compiles |-> TRUE, deps |-> FALSE, unpinned |-> FALSE,
     framework |-> "none", todo |-> FALSE]
CodeB ==
    [kind |-> "Content", id |-> "b", len |-> 120, striplen |-> 118,
     compiles |-> TRUE, deps |-> TRUE, unpinned |-> FALSE,
     framework |-> "flask", todo |-> FALSE]
FixGood ==
    [kind |-> "Content", id |-> "fixed", len |-> 130, striplen |-> 130,
     compiles |-> TRUE, deps |-> FALSE, unpinned |-> FALSE,
     framework |-> "none", todo |-> FALSE]
FixShort ==
    [kind |-> "Content", id |-> "short", len |-> 20, striplen |-> 20,
     compiles |-> TRUE, deps |-> FALSE, unpinned |-> FALSE,
     framework |-> "none", todo |-> FALSE]
FixBroken ==
    [kind |-> "Content", id |-> "broken", len |-> 90, striplen |-> 90,
     compiles |-> FALSE, deps |-> FALSE, unpinned |-> FALSE,
     framework |-> "none", todo |-> FALSE]

CodeJs ==
    [kind |-> "Content", id |-> "js", len |-> 120, striplen |-> 118,
     compiles |-> FALSE, deps |-> TRUE, unpinned |-> TRUE,
     framework |-> "none", todo |-> FALSE]

\* a Python file of 20000 characters
CodeLong ==
    [kind |-> "Content", id |-> "long", len |-> 20000, striplen |-> 19998,
     compiles |-> TRUE, deps |-> FALSE, unpinned |-> FALSE,
     framework |-> "none", todo |-> FALSE]

DiskContents == {CodeA, CodeB}

(* A path: its stem, its extension (os.path.splitext(filepath)[1]) and     *)
(* whether it ends with 'Dockerfile' or holds 'dockerfile' in lower case.  *)
PyPath == [stem |-> "app", ext |-> ".py", dockerfile |-> FALSE]
TfPath == [stem |-> "main", ext |-> ".tf", dockerfile |-> FALSE]
JsPath == [stem |-> "app", ext |-> ".js", dockerfile |-> FALSE]
BinPath == [stem |-> "blob", ext |-> ".bin", dockerfile |-> FALSE]

\* 'dockerfile' in filepath.lower(), for the names the model uses
MentionsDockerfile(stem) ==
    stem \in {"Dockerfile", "DOCKERFILE", "dockerfiles/app"}

\* the path stem + ext as detect_language_and_framework reads it
Path(stem, ext) ==
    [stem |-> stem, ext |-> ext, dockerfile |-> MentionsDockerfile(stem)]

\* dockerfiles/app.py, a Python file in a directory named after Docker
DockerPy == Path("dockerfiles/app", ".py")
Paths == {PyPath, JsPath, TfPath, BinPath, DockerPy}

(* hashlib.sha256(...).hexdigest(): one digest per content, no two         *)
(* contents of the model sharing one.                                      *)
SHA256(content) == [kind |-> "Digest", of |-> content.id, todo |-> content.todo]

get_file_hash(d, filepath) ==
    IF d[filepath] = NoFile THEN None ELSE SHA256(d[filepath])

CachedHash(cached_data) ==
    IF cached_data.kind = "Entry" THEN cached_data.hash ELSE None

is_file_changed_ByPathOnly(d, fc, filepath) ==
    LET current_hash == get_file_hash(d, filepath) IN
    IF current_hash = None THEN TRUE
    ELSE CachedHash(fc[filepath]) = None

is_file_changed(d, fc, filepath) ==
    LET current_hash == get_file_hash(d, filepath) IN
    IF current_hash = None THEN TRUE
    ELSE CachedHash(fc[filepath]) # current_hash

get_cached_result(d, fc, filepath) ==
    IF ~is_file_changed(d, fc, filepath)
    THEN LET cached_data == fc[filepath] IN
         IF cached_data.has_result THEN cached_data.result ELSE None
    ELSE None

(* update_file_cache that stores nothing for a scan without issues         *)
update_file_cache_SkipClean(d, fc, filepath, scan_result, now) ==
    LET file_hash == get_file_hash(d, filepath) IN
    IF file_hash # None /\ scan_result # None
    THEN [fc EXCEPT ![filepath] =
             [kind |-> "Entry", hash |-> file_hash, has_result |-> TRUE,
              result |-> scan_result, timestamp |-> now]]
    ELSE fc

(* update_file_cache that keeps the result of the entry it finds           *)
update_file_cache_KeepFirst(d, fc, filepath, scan_result, now) ==
    LET file_hash == get_file_hash(d, filepath) IN
    IF file_hash # None
    THEN [fc EXCEPT ![filepath] =
             [kind |-> "Entry", hash |-> file_hash, has_result |-> TRUE,
              result |-> IF fc[filepath].kind = "Entry"
                         THEN fc[filepath].result ELSE scan_result,
              timestamp |-> now]]
    ELSE fc

update_file_cache(d, fc, filepath, scan_result, now) ==
    LET file_hash == get_file_hash(d, filepath) IN
    IF file_hash # None
    THEN [fc EXCEPT ![filepath] =
             [kind |-> "Entry", hash |-> file_hash, has_result |-> TRUE,
              result |-> scan_result, timestamp |-> now]]
    ELSE fc

(***************************************************************************)
(* The external services, as the outcomes a call to them can have.         *)
(***************************************************************************)

(* Items of the JSON array the model returns to compliance_detect: dict    *)
(* is isinstance(issue, dict), has_* the keys present.                     *)
Item(sev, ln, cv) ==
    [dict |-> TRUE, has_line |-> TRUE, has_severity |-> TRUE,
     has_description |-> TRUE, type |-> "compliance", severity |-> sev,
     line |-> ln, compliance_violations |-> cv, s3_sources |-> <<>>]
ItemCritical == Item("critical", 3, <<"PCI-DSS">>)
ItemHigh == Item("high", 7, <<"SOC2", "PCI-DSS">>)
ItemNoSeverity == [ItemHigh EXCEPT !.has_severity = FALSE]
ItemNotDict == [ItemHigh EXCEPT !.dict = FALSE]
ItemNoDescription == [ItemHigh EXCEPT !.has_description = FALSE]

(* bedrock.invoke_model as called by call_ai_with_compliance: it raises,   *)
(* or returns an envelope the parsing of which raises ("malformed"), or    *)
(* returns a text.  A text has a shape (what compliance_detect's cleaning  *)
(* and json.loads make of it), its items when it is a JSON array, the      *)
(* content it is when read as fixed code, and its length.                  *)
Raise == [kind |-> "raise"]
Malformed == [kind |-> "malformed"]
Text(shape, items, code, n) ==
    [kind |-> "text", shape |-> shape, items |-> items, code |-> code,
     len |-> n]

DetectOutcomes ==
    {Raise, Malformed,
     Text("prose", <<>>, None, 40),
     Text("badjson", <<>>, None, 40),
     Text("array", <<>>, None, 40),
     Text("array", <<ItemCritical, ItemNoSeverity, ItemNotDict>>, None, 40),
     Text("array", <<ItemNoDescription>>, None, 40)}

FixOutcomes(code) ==
    {Raise,
     Text("empty", <<>>, None, 0),
     Text("code", <<>>, FixGood, 40),
     Text("code", <<>>, FixShort, 40),
     Text("code", <<>>, FixBroken, 40),
     Text("code", <<>>, code, 40)}

(* bedrock_agent.retrieve_and_generate: it raises, or answers with a text  *)
(* (possibly empty) and the S3 uris of its citations.                      *)
KbOutcomes ==
    {[kind |-> "raise"],
     [kind |-> "answer", text |-> "guidance", uris |-> <<"s3://kb/rfc1.txt">>],
     [kind |-> "answer", text |-> "", uris |-> <<>>]}

(* The vulnerabilities check_cve_vulnerabilities and                       *)
(* check_github_advisories report for the dependencies of a file.          *)
Vuln(src, sev) ==
    [type |-> src, id |-> "CVE-1", package |-> "pkg", line |-> 2,
     severity |-> sev, description |-> "d"]
VulnLists == {<<>>, <<Vuln("CVE", "CRITICAL")>>}

InputRate == 35
OutputRate == 140
PromptOverhead == 400

(* call_ai_with_compliance with no try around the invocation: a failure    *)
(* of the transport or of the parsing leaves the function as an exception  *)
call_ai_with_compliance_Uncaught(prompt_len, outcome) ==
    CASE outcome.kind = "raise" ->
           [output |-> None, raised |-> TRUE, logged |-> FALSE,
            calls |-> 0, cost |-> 0, invoked |-> 1]
      [] outcome.kind = "malformed" ->
           [output |-> None, raised |-> TRUE, logged |-> FALSE,
            calls |-> 1, cost |-> 0, invoked |-> 1]
      [] OTHER ->
           [output |-> outcome, raised |-> FALSE, logged |-> FALSE,
            calls |-> 1,
            cost |-> (prompt_len + PromptOverhead) * InputRate
                     + outcome.len * OutputRate,
            invoked |-> 1]

(* call_ai_with_compliance: the output (None when absent), whether an      *)
(* exception left the function, whether log_error was called, and what    *)
(* the call adds to ai_calls, to total_cost and to the invoke_model count. *)
(* The try block holds the invocation, the parsing and the cost, and the   *)
(* except branch logs and returns None.                                    *)
call_ai_with_compliance(prompt_len, outcome) ==
    CASE outcome.kind = "raise" ->
           [output |-> None, raised |-> FALSE, logged |-> TRUE,
            calls |-> 0, cost |-> 0, invoked |-> 1]
      [] outcome.kind = "malformed" ->
           [output |-> None, raised |-> FALSE, logged |-> TRUE,
            calls |-> 1, cost |-> 0, invoked |-> 1]
      [] OTHER ->
           [output |-> outcome, raised |-> FALSE, logged |-> FALSE,
            calls |-> 1,
            cost |-> (prompt_len + PromptOverhead) * InputRate
                     + outcome.len * OutputRate,
            invoked |-> 1]

NoCall == [output |-> None, raised |-> FALSE, logged |-> FALSE,
           calls |-> 0, cost |-> 0, invoked |-> 0]

(* ext_map with a language for every extension                             *)
ext_map_Any(ext) ==
    CASE ext = ".py" -> "Python"
      [] ext \in {".tf", ".tfvars"} -> "Terraform"
      [] OTHER -> "JavaScript"

ext_map(ext) ==
    CASE ext = ".py" -> "Python"
      [] ext = ".js" -> "JavaScript"
      [] ext = ".ts" -> "TypeScript"
      [] ext \in {".tf", ".tfvars"} -> "Terraform"
      [] ext \in {".yaml", ".yml"} -> "Kubernetes"
      [] ext = ".java" -> "Java"
      [] ext = ".go" -> "Go"
      [] ext = ".sh" -> "Shell"
      [] OTHER -> "Unknown"

detect_language_and_framework(filepath, code) ==
    LET language == IF filepath.dockerfile THEN "Docker"
                    ELSE ext_map(filepath.ext)
        framework == IF language = "Python" /\ code.framework = "django"
                     THEN "Django"
                     ELSE IF language = "Python" /\ code.framework = "flask"
                     THEN "Flask"
                     ELSE IF language = "Python" /\ code.framework = "fastapi"
                     THEN "FastAPI"
                     ELSE "None"
    IN [language |-> language, framework |-> framework]

(* query_kb_for_rules: the guidance and the sources; a failed query gives  *)
(* the stock guidance, which holds 'standard compliance rules'.            *)
query_kb_for_rules(kb) ==
    IF kb.kind = "raise"
    THEN [kb_guidance |-> "standard compliance rules", rfc_sources |-> <<>>]
    ELSE [kb_guidance |-> kb.text, rfc_sources |-> kb.uris]

KbUnavailable(kb_info) ==
    kb_info.kb_guidance = "" \/ kb_info.kb_guidance = "standard compliance rules"

RECURSIVE ValidIssues(_, _)
ValidIssues(items, rfc_sources) ==
    IF items = <<>> THEN <<>>
    ELSE LET issue == Head(items)
             rest == ValidIssues(Tail(items), rfc_sources)
         IN IF issue.dict /\ issue.has_line /\ issue.has_severity
            THEN <<[issue EXCEPT !.s3_sources = rfc_sources]>> \o rest
            ELSE rest

(* compliance_detect: the issues and the model call it made, if any (an    *)
(* exception leaving the call leaves compliance_detect: call.raised).      *)
compliance_detect(code, require_kb, kb, outcome) ==
    LET kb_info == query_kb_for_rules(kb) IN
    IF KbUnavailable(kb_info) /\ require_kb
    THEN [issues |-> <<>>, call |-> NoCall]
    ELSE LET call == call_ai_with_compliance(code.len, outcome)
             output == call.output
         IN IF call.raised \/ output = None \/ output.shape = "empty"
            THEN [issues |-> <<>>, call |-> call]
            ELSE IF output.shape = "array"
            THEN [issues |-> ValidIssues(output.items, kb_info.rfc_sources),
                  call |-> call]
            ELSE [issues |-> <<>>, call |-> call]

basic_validation(fixed_code, language) ==
    IF fixed_code.striplen < 10 THEN FALSE
    ELSE IF language = "Python" THEN fixed_code.compiles
    ELSE fixed_code.striplen > 10

(* compliance_fix: the fixed code (None when the model gave none) and the  *)
(* model call; it raises KeyError when an issue has no description.        *)
compliance_fix(code, issues, outcome) ==
    IF \E k \in 1..Len(issues) : ~issues[k].has_description
    THEN [raised |-> TRUE, fixed |-> None, call |-> NoCall]
    ELSE LET call == call_ai_with_compliance(code.len, outcome) IN
         [raised |-> call.raised,
          fixed |-> IF call.output = None \/ call.output.shape = "empty"
                    THEN None ELSE call.output.code,
          call |-> call]

(* fix_vulnerabilities edits only .js, Dockerfile and .yaml/.yml files:    *)
(* there it raises on a fixed_code of None and puts a TODO comment on the  *)
(* line of the vulnerable dependency; elsewhere it returns its argument.   *)
VulnFixable(filepath) ==
    filepath.ext \in {".js", ".yaml", ".yml"} \/ filepath.dockerfile

Annotated(code) ==
    [code EXCEPT !.todo = TRUE, !.len = @ + 40, !.striplen = @ + 40]

fix_vulnerabilities(fixed_code, filepath) ==
    [raised |-> VulnFixable(filepath) /\ fixed_code = None,
     fixed |-> IF VulnFixable(filepath) /\ fixed_code # None /\ fixed_code.deps
               THEN Annotated(fixed_code) ELSE fixed_code]

extract_dependencies(code, filepath) ==
    (filepath.ext \in {".tf", ".yaml", ".yml", ".js"} \/ filepath.dockerfile)
    /\ code.deps

check_version_pinning(code, filepath) ==
    IF filepath.ext = ".js" /\ code.unpinned
    THEN <<[Item("MEDIUM", 1, <<"Security", "Supply Chain">>)
              EXCEPT !.type = "version_pinning"]>>
    ELSE IF filepath.dockerfile /\ filepath.ext = "" /\ code.unpinned
    THEN <<[Item("HIGH", 1, <<"Security", "Supply Chain">>)
              EXCEPT !.type = "version_pinning"]>>
    ELSE <<>>

RECURSIVE VulnIssues(_)
VulnIssues(vulnerabilities) ==
    IF vulnerabilities = <<>> THEN <<>>
    ELSE LET vuln == Head(vulnerabilities) IN
         <<[Item(vuln.severity, vuln.line, <<"Security">>)
              EXCEPT !.type = "vulnerability"]>>
         \o VulnIssues(Tail(vulnerabilities))

Violations(issues) ==
    UNION {{issues[k].compliance_violations[j] :
               j \in 1..Len(issues[k].compliance_violations)} :
           k \in 1..Len(issues)}

(***************************************************************************)
(* scan_file(filepath, auto_fix), given the outcomes of the external calls *)
(* it makes: ext.vulns, ext.kb, ext.detect, ext.fix.  The value is the     *)
(* returned result (or that the call raised), the cache and the disk it    *)
(* leaves, and the external calls it made.                                 *)
(***************************************************************************)
Outcome(ret, raised, fc, d, calls, cost, invoked, kbq, adv) ==
    [returned |-> ret, raised |-> raised, file_cache |-> fc, disk |-> d,
     calls |-> calls, cost |-> cost, invoked |-> invoked,
     kb_queries |-> kbq, advisory_lookups |-> adv]

(* What json.load made of a cache document that is not a JSON object (a    *)
(* list, a number, a string): a value on which .get and item assignment    *)
(* by path raise.  It is written as the cache that holds this marker for   *)
(* every path.                                                             *)
NotMapping == [kind |-> "NotMapping"]
IsMapping(fc) == \A p \in DOMAIN fc : fc[p] # NotMapping

(* `self.update_file_cache(filepath, result)` and `return result`, the     *)
(* end of scan_file: the item assignment raises when the cache is not a    *)
(* mapping and the file can be hashed                                      *)
store_result(d, fc, filepath, result, now, calls, cost, invoked, adv) ==
    IF ~IsMapping(fc) /\ get_file_hash(d, filepath) # None
    THEN Outcome(None, TRUE, fc, d, calls, cost, invoked, 1, adv)
    ELSE Outcome(result, FALSE, update_file_cache(d, fc, filepath, result, now),
                 d, calls, cost, invoked, 1, adv)

Result(filepath, lf, issues, fixed) ==
    [kind |-> "Result", filepath |-> filepath, language |-> lf.language,
     framework |-> lf.framework, issues |-> issues, fixed |-> fixed,
     compliance_violations |-> Violations(issues)]

scan_miss(d, fc, filepath, auto_fix, require_kb, ext, now) ==
    LET code == d[filepath]
        lf == detect_language_and_framework(filepath, code)
        language == lf.language
        dependencies == extract_dependencies(code, filepath)
        vulnerabilities == IF dependencies THEN ext.vulns ELSE <<>>
        adv == IF dependencies THEN 1 ELSE 0
        det == compliance_detect(code, require_kb, ext.kb, ext.detect)
        issues == det.issues \o check_version_pinning(code, filepath)
                  \o VulnIssues(vulnerabilities)
        compliance_issues ==
            SelectSeq(issues, LAMBDA i : i.type # "vulnerability")
        vulnerability_issues ==
            SelectSeq(issues, LAMBDA i : i.type = "vulnerability")
        cfix == IF compliance_issues # <<>>
                THEN compliance_fix(code, compliance_issues, ext.fix)
                ELSE [raised |-> FALSE, fixed |-> code, call |-> NoCall]
        vfix == IF vulnerability_issues # <<>>
                THEN fix_vulnerabilities(cfix.fixed, filepath)
                ELSE [raised |-> FALSE, fixed |-> cfix.fixed]
        fixed_code == vfix.fixed
        accepted == /\ fixed_code # None
                    /\ fixed_code.len > 50
                    /\ fixed_code # code
                    /\ basic_validation(fixed_code, language)
        calls1 == det.call.calls
        cost1 == det.call.cost
        inv1 == det.call.invoked
    IN
    IF language = "Unknown"
    THEN Outcome(None, FALSE, fc, d, 0, 0, 0, 0, 0)
    ELSE IF det.call.raised
    THEN Outcome(None, TRUE, fc, d, calls1, cost1, inv1, 1, adv)
    ELSE IF issues = <<>>
    THEN store_result(d, fc, filepath, None, now, calls1, cost1, inv1, adv)
    ELSE IF ~auto_fix
    THEN store_result(d, fc, filepath, Result(filepath, lf, issues, FALSE),
                      now, calls1, cost1, inv1, adv)
    ELSE IF cfix.raised \/ (~cfix.raised /\ vfix.raised)
    THEN Outcome(None, TRUE, fc, d, calls1 + cfix.call.calls,
                 cost1 + cfix.call.cost, inv1 + cfix.call.invoked, 1, adv)
    ELSE store_result(IF accepted THEN [d EXCEPT ![filepath] = fixed_code]
                      ELSE d,
                      fc, filepath, Result(filepath, lf, issues, accepted),
                      now, calls1 + cfix.call.calls, cost1 + cfix.call.cost,
                      inv1 + cfix.call.invoked, adv)

(* scan_file: the lookup and the reading of the file are in one try; a     *)
(* cache that is not a mapping makes the lookup raise once the file has    *)
(* been hashed, and the except branch logs and returns None.               *)
scan_file(d, fc, filepath, auto_fix, require_kb, ext, now) ==
    IF d[filepath] = NoFile
    THEN Outcome(None, FALSE, fc, d, 0, 0, 0, 0, 0)
    ELSE IF ~auto_fix /\ ~IsMapping(fc)
    THEN Outcome(None, FALSE, fc, d, 0, 0, 0, 0, 0)
    ELSE IF ~auto_fix /\ get_cached_result(d, fc, filepath) # None
    THEN Outcome(get_cached_result(d, fc, filepath), FALSE, fc, d, 0, 0, 0, 0, 0)
    ELSE scan_miss(d, fc, filepath, auto_fix, require_kb, ext, now)

(***************************************************************************)
(* The scanner as a state machine.                                         *)
(***************************************************************************)
EmptyCache == [p \in Paths |-> NoEntry]

(* load_cache: the persisted cache, or an empty one when it cannot be      *)
(* read or parsed.                                                         *)
Stored(fc) == [readable |-> TRUE, data |-> fc]
Corrupt == [readable |-> FALSE, data |-> EmptyCache]
load_cache(store) == IF store.readable THEN store.data ELSE EmptyCache

Idle ==
    [op |-> "none", path |-> BinPath, auto_fix |-> FALSE,
     valid_entry |-> FALSE, stored |-> None, rescan |-> FALSE,
     returned |-> None, raised |-> FALSE, oracle_calls |-> 0,
     kb_queries |-> 0, advisory_lookups |-> 0, cache_same |-> TRUE,
     disk_same |-> TRUE, ledger_same |-> TRUE]

(* A cache left by an earlier run: nothing, or an entry for app.py made    *)
(* when its content was CodeA and no issue was found.                      *)
InitialStores ==
    {Stored(EmptyCache),
     Stored([EmptyCache EXCEPT ![PyPath] =
         [kind |-> "Entry", hash |-> SHA256(CodeA), has_result |-> TRUE,
          result |-> None, timestamp |-> 0]]),
     Corrupt}

(* no second process                                                       *)
NoPeers == <<>>

(* run() has not been called                                               *)
NoScan ==
    [op |-> "none", path |-> BinPath, mapping |-> TRUE, kb_unavailable |-> FALSE,
     detect |-> "none", fix |-> "none", raised |-> FALSE, scanned |-> FALSE,
     returned |-> None, oracle_calls |-> 0, counted |-> 0, cost |-> 0,
     kb_requests |-> 0, kb_chars |-> 0, code_len |-> 0,
     cache_same |-> TRUE, disk_same |-> TRUE]

RunIdle ==
    [pc |-> "idle", auto_fix |-> FALSE, require_kb |-> FALSE,
     github_actions |-> FALSE, max_files |-> 0, store |-> "none",
     files |-> <<>>, todo |-> <<>>, scanned |-> <<>>, invocations |-> 0,
     results |-> <<>>, report |-> None,
     publish |-> "none", exit_code |-> None, save |-> "none", log |-> NoScan]

FixIdle ==
    /\ fs = <<>>
    /\ api_calls = 0
    /\ fixes_applied = <<>>
    /\ pending = <<>>
    /\ lastfix = [op |-> "none"]

(* The working tree of the scans: app.py, main.tf and blob.bin, and no     *)
(* app.js                                                                  *)
Tree ==
    [p \in Paths |-> IF p = TfPath THEN CodeB
                     ELSE IF p \in {JsPath, DockerPy} THEN NoFile
                     ELSE CodeA]

Init ==
    /\ disk = Tree
    /\ cache_store \in InitialStores
    /\ file_cache = load_cache(cache_store)
    /\ ai_calls = 0
    /\ total_cost = 0
    /\ scans = 0
    /\ edits = 0
    /\ unmodified = {}
    /\ persisted_unmodified = {}
    /\ last = Idle
    /\ FixIdle
    /\ run = RunIdle
    /\ peers = NoPeers

(* The outcomes the external calls of one scan_file call can have: one    *)
(* choice where the call makes none of them.                               *)
ExternalOutcomes(d, fc, filepath, auto_fix) ==
    IF \/ d[filepath] = NoFile
       \/ (~auto_fix /\ get_cached_result(d, fc, filepath) # None)
       \/ ext_map(filepath.ext) = "Unknown"
    THEN {[vulns |-> <<>>, kb |-> [kind |-> "raise"], detect |-> Raise,
           fix |-> Raise]}
    ELSE {[vulns |-> v, kb |-> k, detect |-> t, fix |-> f] :
             v \in IF extract_dependencies(d[filepath], filepath)
                   THEN VulnLists ELSE {<<>>},
             k \in KbOutcomes, t \in DetectOutcomes,
             f \in IF auto_fix THEN FixOutcomes(d[filepath]) ELSE {Raise}}

ScanFile(filepath, auto_fix) ==
    /\ scans < MaxScans
    /\ ~last.raised
    /\ \E require_kb \in BOOLEAN :
       \E ext \in ExternalOutcomes(disk, file_cache, filepath, auto_fix) :
          \E r \in {scan_file(disk, file_cache, filepath, auto_fix,
                             require_kb, ext, scans + 1)} :
             /\ disk' = r.disk
             /\ file_cache' = r.file_cache
             /\ ai_calls' = ai_calls + r.calls
             /\ total_cost' = total_cost + r.cost
             /\ scans' = scans + 1
             /\ unmodified' = IF r.raised THEN unmodified
                              ELSE unmodified \cup {filepath}
             /\ last' = [op |-> "scan", path |-> filepath,
                         auto_fix |-> auto_fix,
                         valid_entry |->
                             ~is_file_changed(disk, file_cache, filepath),
                         stored |->
                             get_cached_result(disk, file_cache, filepath),
                         rescan |-> filepath \in unmodified,
                         returned |-> r.returned, raised |-> r.raised,
                         oracle_calls |-> r.invoked,
                         kb_queries |-> r.kb_queries,
                         advisory_lookups |-> r.advisory_lookups,
                         cache_same |-> r.file_cache = file_cache,
                         disk_same |-> r.disk = disk,
                         ledger_same |-> r.calls = 0 /\ r.cost = 0]
    /\ UNCHANGED <<cache_store, edits, persisted_unmodified, fix_vars,
                   run_vars,
                   peer_vars>>

(* The working tree changes between two scans: app.py is edited, main.tf   *)
(* is deleted or restored.                                                 *)
Edits(filepath) ==
    IF filepath = PyPath THEN DiskContents ELSE {CodeB, NoFile}

ModifyFile(filepath, content) ==
    /\ edits < MaxEdits
    /\ disk[filepath] # content
    /\ disk' = [disk EXCEPT ![filepath] = content]
    /\ edits' = edits + 1
    /\ unmodified' = unmodified \ {filepath}
    /\ persisted_unmodified' = persisted_unmodified \ {filepath}
    /\ UNCHANGED <<file_cache, cache_store, ai_calls, total_cost,
                   scans, last, fix_vars, run_vars,
                   peer_vars>>

(* save_cache, at the end of run().                                        *)
SaveCache ==
    /\ ~last.raised
    /\ cache_store # Stored(file_cache)
    /\ cache_store' = Stored(file_cache)
    /\ persisted_unmodified' = unmodified
    /\ UNCHANGED <<disk, file_cache, ai_calls, total_cost,
                   scans, edits, unmodified, last, fix_vars, run_vars,
                   peer_vars>>

(* The process ends, after run() saved the cache or on an exception that   *)
(* left scan_file, and a new one is constructed: __init__.                 *)
Restart ==
    /\ last.op # "none"
    /\ (last.raised \/ cache_store = Stored(file_cache))
    /\ file_cache' = load_cache(cache_store)
    /\ ai_calls' = 0
    /\ total_cost' = 0
    /\ unmodified' = persisted_unmodified
    /\ last' = Idle
    /\ UNCHANGED <<disk, cache_store, scans, edits, persisted_unmodified,
                   fix_vars, run_vars,
                   peer_vars>>

Next ==
    \/ \E filepath \in Paths, auto_fix \in BOOLEAN :
          ScanFile(filepath, auto_fix)
    \/ \E filepath \in {PyPath, TfPath} :
          \E content \in Edits(filepath) : ModifyFile(filepath, content)
    \/ SaveCache
    \/ Restart

Spec == Init /\ [][Next]_vars

(***************************************************************************)
(*                     Claims about the scanner                            *)
(***************************************************************************)

ValidEntry(d, fc, p) ==
    /\ d[p] # NoFile
    /\ fc[p] # NoEntry
    /\ fc[p].hash = SHA256(d[p])

(* C1: for every path and every reachable cache state,                     *)
(* get_cached_result(path) returns a stored result only if the SHA-256     *)
(* digest of the file's current content equals the hash stored in the      *)
(* entry of that path, and then it is that entry's result; when the        *)
(* content differs from the one the entry was stored for, or there is no   *)
(* entry, or the file cannot be read, the lookup returns None.             *)
C1_HitOnlyOnMatchingHash ==
    \A p \in Paths :
       LET r == get_cached_result(disk, file_cache, p) IN
       /\ r # None => ValidEntry(disk, file_cache, p) /\ r = file_cache[p].result
       /\ ~ValidEntry(disk, file_cache, p) => r = None

(* A state where one path is a hit and another holds an entry with a       *)
(* result that was stored for a content the file no longer has.            *)
C1_Witness ==
    \E p, q \in Paths :
       /\ get_cached_result(disk, file_cache, p) # None
       /\ file_cache[q] # NoEntry
       /\ file_cache[q].result # None
       /\ disk[q] # NoFile
       /\ file_cache[q].hash # SHA256(disk[q])

(* C2: scanning the same unmodified file twice never invokes the oracle    *)
(* the second time.  Stated for the calls that consult the cache           *)
(* (auto_fix off) on a path whose entry is valid: a path that was scanned, *)
(* in this run or in one whose cache was saved and reloaded, and whose     *)
(* content has not changed since.                                          *)
C2_RescanNeverInvokesOracle ==
    (last.op = "scan" /\ last.rescan /\ ~last.auto_fix /\ last.valid_entry)
        => last.oracle_calls = 0

(* C3: a cache hit is a pure read: when scan_file (consulting the cache)   *)
(* finds a valid entry for the file, it returns the stored result          *)
(* verbatim, makes no oracle call, no knowledge-context fetch and no       *)
(* advisory lookup, leaves ai_calls and total_cost as they were, and       *)
(* leaves the in-memory cache and the file's content unchanged.            *)
C3_CacheHitIsPureRead ==
    (last.op = "scan" /\ ~last.auto_fix /\ last.valid_entry)
        => /\ last.returned = last.stored
           /\ last.oracle_calls = 0
           /\ last.kb_queries = 0
           /\ last.advisory_lookups = 0
           /\ last.ledger_same
           /\ last.cache_same
           /\ last.disk_same

(***************************************************************************)
(* Part II.  security_analyzer.py: PureAISecurityAnalyzer                  *)
(*                                                                         *)
(* A text is a sequence of lexemes.  The lexemes are cut so that every     *)
(* substring the code searches for (the three trigger substrings, the      *)
(* quoted key "fixed_content", the code fence, the structural anchors,     *)
(* the JSON punctuation and the escapes) begins and ends on a lexeme       *)
(* boundary; matching on lexemes is then matching on characters.           *)
(***************************************************************************)

Q == "\""
BS == "\\"
NL == "\n"
SP == " "
LB == "{"
RB == "}"
LSQ == "["
RSQ == "]"
COLON == ":"
COMMA == ","
\* the code fence: three backquotes
FENCE == "<fence>"

Whitespace == {SP, NL}
Digits == {"0", "1", "8"}

\* the least element of a non-empty set of positions
Min(positions) == CHOOSE j \in positions : \A k \in positions : j <= k
Max(positions) == CHOOSE j \in positions : \A k \in positions : k <= j

\* seq[i..] and seq[..i-1]
From(seq, i) == SubSeq(seq, i, Len(seq))
Upto(seq, i) == SubSeq(seq, 1, i - 1)

\* pat occurs in seq at position i
At(seq, pat, i) ==
    /\ i >= 1
    /\ i + Len(pat) - 1 <= Len(seq)
    /\ SubSeq(seq, i, i + Len(pat) - 1) = pat

\* str.find: the first position >= i where pat occurs, 0 if none
Find(seq, pat, i) ==
    LET hits == {j \in i..Len(seq) : At(seq, pat, j)} IN
    IF hits = {} THEN 0 ELSE Min(hits)

\* pat in seq
Contains(seq, pat) == Find(seq, pat, 1) # 0

\* str.replace(old, new, 1): only the first occurrence
ReplaceFirst(seq, old, new) ==
    LET j == Find(seq, old, 1) IN
    IF j = 0 THEN seq
    ELSE Upto(seq, j) \o new \o From(seq, j + Len(old))

RECURSIVE Replace(_, _, _)
\* str.replace(old, new): every occurrence, left to right, not overlapping
Replace(seq, old, new) ==
    LET j == Find(seq, old, 1) IN
    IF j = 0 THEN seq
    ELSE Upto(seq, j) \o new \o Replace(From(seq, j + Len(old)), old, new)

\* \s* : the first position >= i that holds no whitespace (or the end)
SkipWs(seq, i) ==
    Min({j \in i..(Len(seq) + 1) : j > Len(seq) \/ seq[j] \notin Whitespace} \cup {Len(seq) + 1})

\* [^"]* : the first position >= i that holds a quote (or the end)
SkipNonQuote(seq, i) ==
    Min({j \in i..Len(seq) : seq[j] = Q} \cup {Len(seq) + 1})

\* str.strip()
Strip(seq) ==
    LET first == SkipWs(seq, 1)
        last_ == Max({j \in 1..Len(seq) : seq[j] \notin Whitespace} \cup {0}) IN
    SubSeq(seq, first, last_)

\* The substitution table of Methods 3 and 4
Trigger1 == <<"0", ".0.0.0/", "0">>
Literal1 == <<"1", "0", ".0.0.0/", "8">>
Trigger2 == <<"privileged:", SP, "true">>
Literal2 == <<"privileged:", SP, "false">>
Trigger3 == <<"runAsUser:", SP, "0">>
Literal3 == <<"runAsUser:", SP, "1", "0", "0", "0">>

\* Python values
PStr(text) == [kind |-> "str", v |-> text]
PList(items) == [kind |-> "list", v |-> items]
PDict(pairs) == [kind |-> "dict", v |-> pairs]
PNum(digits) == [kind |-> "num", v |-> digits]
PBool(b) == [kind |-> "bool", v |-> b]

(* json.loads, on lexemes.  A parse returns the value and the position     *)
(* after it, or fails.                                                     *)
Parsed(val, next) == [ok |-> TRUE, val |-> val, next |-> next]
Fail == [ok |-> FALSE, val |-> None, next |-> 0]

\* the number of backslashes that stand right before position j, from i on
BackslashesBefore(seq, i, j) ==
    j - 1 - Max({k \in i..(j - 1) : seq[k] # BS} \cup {i - 1})

\* the position of the quote that closes the string opened before position
\* i: the first quote that no backslash escapes (past the end if none)
ClosingQuote(seq, i) ==
    Min({j \in i..Len(seq) : seq[j] = Q /\ BackslashesBefore(seq, i, j) % 2 = 0}
        \cup {Len(seq) + 1})

\* the characters of a JSON string from position i to its closing quote:
\* escapes are decoded, a raw newline or an unknown escape is an error
ParseStringBody(seq, i, acc) ==
    LET close == ClosingQuote(seq, i)
        body == SubSeq(seq, i, close - 1)
        EscapeAt(p) == body[p] = BS /\ BackslashesBefore(body, 1, p) % 2 = 0
        Escaped(p) == p > 1 /\ EscapeAt(p - 1)
        marked == [p \in 1..Len(body) |->
                     IF Escaped(p)
                     THEN [keep |-> TRUE, ch |-> IF body[p] = "n" THEN NL ELSE body[p]]
                     ELSE [keep |-> ~EscapeAt(p), ch |-> body[p]]]
        kept == SelectSeq(marked, LAMBDA m : m.keep) IN
    IF close > Len(seq) THEN Fail
    ELSE IF \E p \in 1..Len(body) : ~Escaped(p) /\ body[p] = NL THEN Fail
    ELSE IF \E p \in 1..Len(body) : Escaped(p) /\ body[p] \notin {Q, BS, "n"} THEN Fail
    ELSE Parsed(acc \o [p \in 1..Len(kept) |-> kept[p].ch], close + 1)

\* the first position >= i that holds no digit (or the end)
SkipDigits(seq, i) ==
    Min({j \in i..(Len(seq) + 1) : j > Len(seq) \/ seq[j] \notin Digits} \cup {Len(seq) + 1})

RECURSIVE ParseValue(_, _)
RECURSIVE ParseElements(_, _, _)
RECURSIVE ParseMembers(_, _, _)

ParseValue(seq, i) ==
    LET j == SkipWs(seq, i) IN
    IF j > Len(seq) THEN Fail
    ELSE IF seq[j] = Q
         THEN LET r == ParseStringBody(seq, j + 1, <<>>) IN
              IF r.ok THEN Parsed(PStr(r.val), r.next) ELSE Fail
    ELSE IF seq[j] = LSQ THEN ParseElements(seq, j + 1, <<>>)
    ELSE IF seq[j] = LB THEN ParseMembers(seq, j + 1, <<>>)
    ELSE IF seq[j] \in Digits
         THEN LET k == SkipDigits(seq, j)
                  digits == SubSeq(seq, j, k - 1) IN
              IF Len(digits) > 1 /\ digits[1] = "0" THEN Fail
              ELSE Parsed(PNum(digits), k)
    ELSE IF seq[j] \in {"true", "false"} THEN Parsed(PBool(seq[j] = "true"), j + 1)
    ELSE Fail

\* the elements of an array, from the position after "[" or after ","
ParseElements(seq, i, acc) ==
    LET j == SkipWs(seq, i) IN
    IF j > Len(seq) THEN Fail
    ELSE IF acc = <<>> /\ seq[j] = RSQ THEN Parsed(PList(<<>>), j + 1)
    ELSE LET v == ParseValue(seq, j)
             k == SkipWs(seq, v.next) IN
         IF ~v.ok \/ k > Len(seq) THEN Fail
         ELSE IF seq[k] = COMMA THEN ParseElements(seq, k + 1, Append(acc, v.val))
         ELSE IF seq[k] = RSQ THEN Parsed(PList(Append(acc, v.val)), k + 1)
         ELSE Fail

\* the members of an object, from the position after "{" or after ","
ParseMembers(seq, i, acc) ==
    LET j == SkipWs(seq, i) IN
    IF j > Len(seq) THEN Fail
    ELSE IF acc = <<>> /\ seq[j] = RB THEN Parsed(PDict(<<>>), j + 1)
    ELSE IF seq[j] # Q THEN Fail
    ELSE LET key == ParseStringBody(seq, j + 1, <<>>)
             c == SkipWs(seq, key.next) IN
         IF ~key.ok \/ c > Len(seq) THEN Fail
         ELSE IF seq[c] # COLON THEN Fail
         ELSE LET v == ParseValue(seq, c + 1)
                  k == SkipWs(seq, v.next) IN
              IF ~v.ok \/ k > Len(seq) THEN Fail
              ELSE IF seq[k] = COMMA
                   THEN ParseMembers(seq, k + 1, Append(acc, <<key.val, v.val>>))
              ELSE IF seq[k] = RB
                   THEN Parsed(PDict(Append(acc, <<key.val, v.val>>)), k + 1)
              ELSE Fail

\* json.loads(text): the value, or None where it raises
json_loads(seq) ==
    LET r == ParseValue(seq, 1) IN
    IF r.ok /\ SkipWs(seq, r.next) > Len(seq) THEN r.val ELSE None

\* dict.get(key, default)
Get(d, key, default) ==
    LET hits == {i \in 1..Len(d.v) : d.v[i][1] = key} IN
    IF hits = {} THEN default
    ELSE d.v[CHOOSE i \in hits : \A k \in hits : k <= i][2]

\* bool(value)
Truthy(value) ==
    IF value = None THEN FALSE
    ELSE IF value.kind = "bool" THEN value.v
    ELSE IF value.kind = "num" THEN \E i \in 1..Len(value.v) : value.v[i] # "0"
    ELSE value.v # <<>>

RECURSIVE SubFenceJson(_)
\* re.sub(r'```json\s*', '', text)
SubFenceJson(seq) ==
    LET j == Find(seq, <<FENCE, "json">>, 1) IN
    IF j = 0 THEN seq
    ELSE Upto(seq, j) \o SubFenceJson(From(seq, SkipWs(seq, j + 2)))

RECURSIVE SubFence(_)
\* re.sub(r'```\s*', '', text)
SubFence(seq) ==
    LET j == Find(seq, <<FENCE>>, 1) IN
    IF j = 0 THEN seq
    ELSE Upto(seq, j) \o SubFence(From(seq, SkipWs(seq, j + 1)))

FixedContentKey == <<Q, "fixed_content", Q>>

\* re.search(r'\{.*?"fixed_content".*?\}', text, re.DOTALL).group(0), or None:
\* from the leftmost "{" to the first "}" after the first quoted key after it
JsonMatch(seq) ==
    LET i == Find(seq, <<LB>>, 1)
        k == Find(seq, FixedContentKey, i + 1)
        e == Find(seq, <<RB>>, k + 3) IN
    IF i = 0 THEN None
    ELSE IF k = 0 THEN None
    ELSE IF e = 0 THEN None
    ELSE PStr(SubSeq(seq, i, e))

\* Method 1: Clean JSON parsing
Method1(output_text) ==
    LET cleaned == SubFence(SubFenceJson(output_text))
        json_match == JsonMatch(cleaned) IN
    IF json_match = None THEN None ELSE json_loads(json_match.v)

\* "fixed_content"\s*:\s*" matches at i: the position after the opening quote, else 0
FieldStart(seq, i) ==
    LET a == SkipWs(seq, i + 3)
        b == SkipWs(seq, a + 1) IN
    IF ~At(seq, FixedContentKey, i) THEN 0
    ELSE IF a > Len(seq) THEN 0
    ELSE IF seq[a] # COLON THEN 0
    ELSE IF b > Len(seq) THEN 0
    ELSE IF seq[b] # Q THEN 0
    ELSE b + 1

\* re.search(r'"fixed_content"\s*:\s*"([^"]*(?:\\.[^"]*)*)"', text).group(1), or
\* None: the field's text up to the next quote character
ContentMatch(seq) ==
    LET hits == {i \in 1..Len(seq) :
                    /\ FieldStart(seq, i) # 0
                    /\ SkipNonQuote(seq, FieldStart(seq, i)) <= Len(seq)} IN
    IF hits = {} THEN None
    ELSE LET i == CHOOSE h \in hits : \A k \in hits : h <= k
             b == FieldStart(seq, i) IN
         PStr(SubSeq(seq, b, SkipNonQuote(seq, b) - 1))

Key(name) == <<name>>
Message(text) == PStr(<<text>>)
Issue(severity, description) ==
    PDict(<< <<Key("severity"), Message(severity)>>,
             <<Key("description"), Message(description)>>,
             <<Key("line"), PNum(<<"1">>)>> >>)
AiResult(issues, fixed_content, changes_made) ==
    PDict(<< <<Key("issues"), PList(issues)>>,
             <<Key("fixed_content"), PStr(fixed_content)>>,
             <<Key("changes_made"), PList(changes_made)>> >>)

\* Method 2: Extract fixed_content directly
Method2(output_text) ==
    LET content_match == ContentMatch(output_text) IN
    IF content_match = None THEN None
    ELSE LET fixed_content ==
                 Replace(Replace(content_match.v, <<BS, "n">>, <<NL>>), <<BS, Q>>, <<Q>>) IN
         AiResult(<<Issue("high", "Security issues fixed")>>,
                  fixed_content,
                  <<Message("AI security fixes applied")>>)

\* resource\s+"[^"]+"\s+"[^"]+"\s*\{ matches at position i
ResourceAt(seq, i) ==
    LET a == SkipWs(seq, i + 1)
        b == SkipNonQuote(seq, a + 1)
        c == SkipWs(seq, b + 1)
        d == SkipNonQuote(seq, c + 1)
        e == SkipWs(seq, d + 1) IN
    /\ seq[i] = "resource"
    /\ a > i + 1 /\ a <= Len(seq) /\ seq[a] = Q
    /\ b > a + 1 /\ b <= Len(seq)
    /\ c > b + 1 /\ c <= Len(seq) /\ seq[c] = Q
    /\ d > c + 1 /\ d <= Len(seq)
    /\ e <= Len(seq) /\ seq[e] = LB

\* the code block of the response: group(1) of the search for the anchor
CodeMatch(seq, filename) ==
    LET hits == IF filename.ext = ".tf"
                THEN {i \in 1..Len(seq) : ResourceAt(seq, i)}
                ELSE {i \in 1..Len(seq) : seq[i] = "apiVersion:"} IN
    IF hits = {} THEN None
    ELSE PStr(From(seq, CHOOSE h \in hits : \A k \in hits : h <= k))

\* the three replacements of the substitution table, in the code's order
BasicFixes(text) ==
    Replace(Replace(Replace(text, Trigger1, Literal1), Trigger2, Literal2),
            Trigger3, Literal3)

\* Method 3: Look for code blocks
Method3(output_text, filename) ==
    LET code_match == CodeMatch(output_text, filename) IN
    IF code_match = None THEN None
    ELSE AiResult(<<Issue("high", "Security vulnerabilities detected")>>,
                  BasicFixes(Strip(code_match.v)),
                  <<Message("Applied security fixes")>>)

\* the change descriptions of Method 4, one per trigger the content holds
Method4Changes(content) ==
    (IF Contains(content, Trigger1)
     THEN <<Message("Restricted CIDR blocks from 0.0.0.0/0 to 10.0.0.0/8")>> ELSE <<>>)
    \o (IF Contains(content, Trigger2)
        THEN <<Message("Disabled privileged containers")>> ELSE <<>>)
    \o (IF Contains(content, Trigger3)
        THEN <<Message("Changed root user to UID 1000")>> ELSE <<>>)

\* the fixed_content of Method 4: each replacement is made on the running
\* text when the ORIGINAL content holds the trigger
Method4Fixed(content) ==
    LET f1 == IF Contains(content, Trigger1)
              THEN Replace(content, Trigger1, Literal1) ELSE content
        f2 == IF Contains(content, Trigger2)
              THEN Replace(f1, Trigger2, Literal2) ELSE f1 IN
    IF Contains(content, Trigger3) THEN Replace(f2, Trigger3, Literal3) ELSE f2

\* Method 4: Apply basic fixes to original content
Method4(content) ==
    LET changes == Method4Changes(content) IN
    IF changes = <<>> THEN None
    ELSE AiResult(<<Issue("high", "Security issues found and fixed")>>,
                  Method4Fixed(content), changes)

\* Final fallback, with a fixed_content that is not the original
FinalFallback_Blank(content) ==
    AiResult(<<Issue("medium", "AI analysis completed")>>, <<>>, <<>>)

\* Final fallback
FinalFallback(content) ==
    AiResult(<<Issue("medium", "AI analysis completed")>>, content, <<>>)

\* the result of the except branch
ApiCallFailed(content) == AiResult(<<>>, content, <<>>)

\* what bedrock.invoke_model and the reading of its body can do: raise,
\* answer a body without the expected fields, or answer a text.  json_block
\* is the JSON document the oracle put in the text, if it put one.
Reply(text, json_block) == [kind |-> "Reply", text |-> text, json_block |-> json_block]

Analysis(ai_result, calls, tried, method) ==
    [ai_result |-> ai_result, api_calls |-> calls, invocations |-> 1,
     tried |-> tried, method |-> method]

\* the state of the extraction chain: ai_result, the blocks that ran and the
\* block that assigned ai_result (0: none yet)
Chain(ai_result, tried, method) ==
    [ai_result |-> ai_result, tried |-> tried, method |-> method]

\* block k ran and found m (None: it found nothing, or raised inside its try)
Ran(chain, k, m) ==
    Chain(IF m # None THEN m ELSE chain.ai_result, chain.tried \o <<k>>,
          IF m # None THEN k ELSE chain.method)

\* ai_result = None, then the Method 1 block
Block1(output_text) == Ran(Chain(None, <<>>, 0), 1, Method1(output_text))

\* `if not ai_result:` and the Method 2 block
Block2(chain, output_text) ==
    IF Truthy(chain.ai_result) THEN chain ELSE Ran(chain, 2, Method2(output_text))

\* `if not ai_result:` and the Method 3 block
Block3(chain, output_text, filename) ==
    IF Truthy(chain.ai_result) THEN chain
    ELSE Ran(chain, 3, Method3(output_text, filename))

\* `if not ai_result:` and the Method 4 block
Block4(chain, content) ==
    IF Truthy(chain.ai_result) THEN chain ELSE Ran(chain, 4, Method4(content))

\* `if not ai_result:` and the final fallback
Block5(chain, content) ==
    IF Truthy(chain.ai_result) THEN chain ELSE Ran(chain, 5, FinalFallback(content))

\* `return ai_result` after one counted call
Return(chain) == Analysis(chain.ai_result, 1, chain.tried, chain.method)

\* the chain with Method 2 run whatever Method 1 produced
ai_analyze_and_fix_Overwrite(content, filename, outcome) ==
    IF outcome = Raise THEN Analysis(ApiCallFailed(content), 0, <<>>, 0)
    ELSE IF outcome = Malformed THEN Analysis(ApiCallFailed(content), 1, <<>>, 0)
    ELSE Return(Block5(Block4(Block3(Ran(Block1(Strip(outcome.text)), 2,
                                         Method2(Strip(outcome.text))),
                                     Strip(outcome.text), filename),
                              content),
                       content))

\* ai_analyze_and_fix(content, filename): ai_result is the dict returned,
\* api_calls the increment of self.api_calls, tried the blocks that ran
\* and method the block that assigned the result (0: the except branch)
ai_analyze_and_fix(content, filename, outcome) ==
    IF outcome = Raise THEN Analysis(ApiCallFailed(content), 0, <<>>, 0)
    ELSE IF outcome = Malformed THEN Analysis(ApiCallFailed(content), 1, <<>>, 0)
    ELSE Return(Block5(Block4(Block3(Block2(Block1(Strip(outcome.text)),
                                            Strip(outcome.text)),
                                     Strip(outcome.text), filename),
                              content),
                       content))

\* len(value), defined for the sized values
Sized(value) == value.kind \in {"str", "list", "dict"}

Applied(content, wrote, applied, issues, analysis) ==
    [content |-> content, wrote |-> wrote, applied |-> applied,
     issues |-> issues, analysis |-> analysis]

\* the body of apply_ai_fixes once ai_analyze_and_fix has returned
\* `analysis`: the gate, the write and the entry of fixes_applied
apply_result(original_content, analysis) ==
    LET ai_result == analysis.ai_result
        issues == Get(ai_result, Key("issues"), PList(<<>>))
        fixed_content == Get(ai_result, Key("fixed_content"), PStr(original_content))
        changes == Get(ai_result, Key("changes_made"), PList(<<>>))
        NoIssues == PList(<<>>) IN
    IF ~Truthy(ai_result)
    THEN Applied(original_content, FALSE, FALSE, NoIssues, analysis)
    ELSE IF ~(Truthy(fixed_content) /\ fixed_content # PStr(original_content))
    THEN Applied(original_content, FALSE, FALSE, issues, analysis)
    ELSE IF ~Sized(changes)
    THEN Applied(original_content, FALSE, FALSE, NoIssues, analysis)
    ELSE IF Len(changes.v) = 0
    THEN Applied(original_content, FALSE, FALSE, issues, analysis)
    ELSE IF fixed_content.kind # "str"
    THEN Applied(<<>>, TRUE, FALSE, NoIssues, analysis)
    ELSE IF ~Sized(issues)
    THEN Applied(fixed_content.v, TRUE, FALSE, NoIssues, analysis)
    ELSE Applied(fixed_content.v, TRUE, TRUE, issues, analysis)

\* apply_ai_fixes(file_path) on a file holding original_content: the content
\* of the file afterwards, whether the file was opened for writing, whether
\* fixes_applied got an entry, and the issues returned
apply_ai_fixes(original_content, file_path, outcome) ==
    apply_result(original_content,
                 ai_analyze_and_fix(original_content, file_path, outcome))

(***************************************************************************)
(* The files of the working directory and the oracle's answers             *)
(***************************************************************************)

MaxFiles == 2

TfComment == "# security group of the web tier, managed by terraform"
BigBlock == "# ten kilobytes of generated rules"

\* len() of a lexeme, in characters (the code fence is three backquotes,
\* BigBlock stands for a block of 10240 characters)
CharLen(lexeme) ==
    CASE lexeme = TfComment -> 54
      [] lexeme = BigBlock -> 10240
      [] lexeme = FENCE -> 3
      [] lexeme \in {"v1", "is"} -> 2
      [] lexeme \in {"web", "Pod", "the"} -> 3
      [] lexeme \in {"true", "Here", "high", "line", "note", "json"} -> 4
      [] lexeme \in {"kind:", "false"} -> 5
      [] lexeme \in {"aws_sg", "egress", "secure", "issues"} -> 6
      [] lexeme \in {".0.0.0/", "ingress", "version"} -> 7
      [] lexeme \in {"resource", "severity"} -> 8
      [] lexeme \in {"ConfigMap"} -> 9
      [] lexeme \in {"runAsUser:", "# hardened"} -> 10
      [] lexeme \in {"apiVersion:", "privileged:"} -> 11
      [] lexeme \in {"changes_made"} -> 12
      [] lexeme \in {"fixed_content"} -> 13
      [] lexeme \in {"192.168.0.0/16"} -> 14
      [] lexeme \in {"readOnlyRootFilesystem:"} -> 23
      [] lexeme \in {"restricted network and user"} -> 27
      [] OTHER -> 1

RECURSIVE TextLen(_)
\* len(text), in characters
TextLen(text) ==
    IF Len(text) = 0 THEN 0
    ELSE IF Len(text) = 1 THEN CharLen(text[1])
    ELSE LET half == Len(text) \div 2 IN
         TextLen(SubSeq(text, 1, half)) + TextLen(SubSeq(text, half + 1, Len(text)))

MainTf == [name |-> "main", ext |-> ".tf"]
BigTf == [name |-> "rules", ext |-> ".tf"]
PodYaml == [name |-> "pod", ext |-> ".yaml"]
OddYaml == [name |-> "odd", ext |-> ".yaml"]
CleanYml == [name |-> "config", ext |-> ".yml"]

\* glob order: *.tf, then *.yaml, then *.yml
GlobOrder == <<MainTf, BigTf, PodYaml, OddYaml, CleanYml>>
FilePaths == {GlobOrder[i] : i \in 1..Len(GlobOrder)}

MainTfContent ==
    <<TfComment, NL, "resource", SP, Q, "aws_sg", Q, SP, Q, "web", Q, SP, LB, NL,
      "ingress", SP, "=", SP, Q, "0", ".0.0.0/", "0", Q, NL,
      "egress", SP, "=", SP, Q, "0", ".0.0.0/", "0", Q, NL, RB, NL>>
BigTfContent == <<BigBlock, NL>>
PodYamlContent ==
    <<"apiVersion:", SP, "v1", NL, "kind:", SP, "Pod", NL,
      "privileged:", SP, "true", NL, "runAsUser:", SP, "0", NL>>
OddYamlContent ==
    <<"apiVersion:", SP, "v1", NL,
      "runAsUser:", SP, "0", ".0.0.0/", "0", ".0.0.0/", "0", NL>>
CleanYmlContent ==
    <<"apiVersion:", SP, "v1", NL, "kind:", SP, "ConfigMap", NL,
      "readOnlyRootFilesystem:", SP, "true", NL>>

ContentOf(file_path) ==
    CASE file_path = MainTf -> MainTfContent
      [] file_path = BigTf -> BigTfContent
      [] file_path = PodYaml -> PodYamlContent
      [] file_path = OddYaml -> OddYamlContent
      [] file_path = CleanYml -> CleanYmlContent

\* glob.glob over the three patterns: the files that exist, in glob order
glob(files) == SelectSeq(GlobOrder, LAMBDA f : files[f] # NoFile)

\* a secure version as the oracle writes it (not the table's literals)
OracleFix(content) ==
    Replace(Replace(Replace(content, Trigger1, <<"192.168.0.0/16">>),
                    Trigger2, Literal2),
            Trigger3, <<"runAsUser:", SP, "1", "0", "0", "1">>)
    \o <<"# hardened", NL>>

\* a character as json.dumps writes it inside a string
EscapeChar(ch) ==
    IF ch \in {Q, BS} THEN <<BS, ch>> ELSE IF ch = NL THEN <<BS, "n">> ELSE <<ch>>

RECURSIVE Escape(_)
\* the characters of a text as json.dumps writes them inside a string
Escape(text) ==
    IF Len(text) = 0 THEN <<>>
    ELSE IF Len(text) = 1 THEN EscapeChar(text[1])
    ELSE LET half == Len(text) \div 2 IN
         Escape(SubSeq(text, 1, half)) \o Escape(SubSeq(text, half + 1, Len(text)))

JsonString(text) == <<Q>> \o Escape(text) \o <<Q>>
Member(name, value) == <<Q, name, Q, COLON, SP>> \o value
IssuesJson ==
    <<LSQ, LB>> \o Member("severity", JsonString(<<"high">>)) \o <<COMMA, SP>>
    \o Member("line", <<"1">>) \o <<RB, RSQ>>
ChangesJson == <<LSQ>> \o JsonString(<<"restricted network and user">>) \o <<RSQ>>
EmptyListJson == <<LSQ, RSQ>>

\* the JSON object the prompt asks for, in three layouts
IssuesFirst(fixed, changes) ==
    <<LB>> \o Member("issues", IssuesJson) \o <<COMMA, SP>>
    \o Member("fixed_content", JsonString(fixed)) \o <<COMMA, SP>>
    \o Member("changes_made", changes) \o <<RB>>
IssuesLast(fixed, changes) ==
    <<LB>> \o Member("fixed_content", JsonString(fixed)) \o <<COMMA, SP>>
    \o Member("changes_made", changes) \o <<COMMA, SP>>
    \o Member("issues", IssuesJson) \o <<RB>>
NoIssues(fixed, changes) ==
    <<LB>> \o Member("fixed_content", JsonString(fixed)) \o <<COMMA, SP>>
    \o Member("changes_made", changes) \o <<RB>>
Fenced(json_block) == <<FENCE, "json", NL>> \o json_block \o <<NL, FENCE>>
Prose == <<"Here", SP, "is", SP, "the", SP, "secure", SP, "version", NL>>
NotAString ==
    <<LB>> \o Member("fixed_content", <<LSQ>> \o JsonString(<<"x">>) \o <<RSQ>>)
    \o <<COMMA, SP>> \o Member("changes_made", ChangesJson) \o <<RB>>
NoteOnly == <<LB>> \o Member("note", JsonString(<<"fixed_content">>)) \o <<RB>>

\* the candidates the oracle may put in fixed_content
Candidates(content) == {OracleFix(content), content, <<"x">>}

\* the answers of the oracle for a file
Replies(content) ==
    {Reply(Fenced(IssuesFirst(f, ch)), IssuesFirst(f, ch)) :
        f \in Candidates(content), ch \in {ChangesJson, EmptyListJson}}
    \cup {Reply(NoIssues(f, ch), NoIssues(f, ch)) :
        f \in Candidates(content), ch \in {ChangesJson, EmptyListJson}}
    \cup {Reply(IssuesLast(OracleFix(content), ChangesJson),
                IssuesLast(OracleFix(content), ChangesJson)),
          Reply(Prose \o Fenced(IssuesFirst(OracleFix(content), ChangesJson))
                \o <<NL>> \o OracleFix(content),
                IssuesFirst(OracleFix(content), ChangesJson)),
          Reply(Prose \o OracleFix(content), <<>>),
          Reply(Prose, <<>>),
          Reply(<<>>, <<>>),
          Reply(NotAString, NotAString),
          Reply(NoteOnly, NoteOnly)}

AnalyzerOutcomes(content) == {Raise, Malformed} \cup Replies(content)

(***************************************************************************)
(* PureAISecurityAnalyzer.run: one step per file of the glob result        *)
(***************************************************************************)

SizeLimit == 10240

\* the scanner's state, which the analyzer never touches
ScanIdle ==
    /\ disk = Tree
    /\ cache_store = Stored(EmptyCache)
    /\ file_cache = EmptyCache
    /\ ai_calls = 0
    /\ total_cost = 0
    /\ scans = 0
    /\ edits = 0
    /\ unmodified = {}
    /\ persisted_unmodified = {}
    /\ last = Idle
    /\ run = RunIdle
    /\ peers = NoPeers

\* a new analyzer started in a directory holding some of the files
InitFix ==
    /\ ScanIdle
    /\ \E present \in SUBSET FilePaths :
          /\ present # {}
          /\ Cardinality(present) <= MaxFiles
          /\ fs = [f \in FilePaths |-> IF f \in present THEN ContentOf(f) ELSE NoFile]
    /\ pending = glob(fs)
    /\ api_calls = 0
    /\ fixes_applied = <<>>
    /\ lastfix = [op |-> "none"]

\* the loop body of run for a file under the size limit: apply_ai_fixes
ApplyFixes ==
    /\ pending # <<>>
    /\ LET file_path == Head(pending)
           original_content == fs[file_path] IN
       /\ TextLen(original_content) < SizeLimit
       /\ \E outcome \in AnalyzerOutcomes(original_content) :
          \E r \in {apply_ai_fixes(original_content, file_path, outcome)} :
             /\ fs' = [fs EXCEPT ![file_path] = r.content]
             /\ api_calls' = api_calls + r.analysis.api_calls
             /\ fixes_applied' =
                   IF r.applied
                   THEN Append(fixes_applied,
                               [file |-> file_path,
                                issues_fixed |-> Len(r.issues.v),
                                changes |-> Get(r.analysis.ai_result,
                                                Key("changes_made"), PList(<<>>))])
                   ELSE fixes_applied
             /\ lastfix' = [op |-> "apply", file |-> file_path,
                            original |-> original_content, outcome |-> outcome,
                            analysis |-> r.analysis, wrote |-> r.wrote,
                            applied |-> r.applied, issues |-> r.issues,
                            after |-> r.content,
                            entries |-> Len(fixes_applied)]
    /\ pending' = Tail(pending)
    /\ UNCHANGED <<scan_vars, run_vars,
                   peer_vars>>

\* the loop body of run for a file of 10KB or more: the file is passed over
SkipLargeFile ==
    /\ pending # <<>>
    /\ TextLen(fs[Head(pending)]) >= SizeLimit
    /\ pending' = Tail(pending)
    /\ lastfix' = [op |-> "skip", file |-> Head(pending)]
    /\ UNCHANGED <<fs, api_calls, fixes_applied>>
    /\ UNCHANGED <<scan_vars, run_vars,
                   peer_vars>>

NextFix ==
    \/ ApplyFixes
    \/ SkipLargeFile

SpecFix == InitFix /\ [][NextFix]_vars

(***************************************************************************)
(*                     Claims about the analyzer                           *)
(***************************************************************************)

\* the last step applied apply_ai_fixes to a file and the oracle answered a text
Answered == lastfix.op = "apply" /\ lastfix.outcome.kind = "Reply"
OutputText == Strip(lastfix.outcome.text)
ResultField(name, default) == Get(lastfix.analysis.ai_result, Key(name), default)
HasTrigger(text) ==
    Contains(text, Trigger1) \/ Contains(text, Trigger2) \/ Contains(text, Trigger3)

\* no structured form in the answer: Methods 1, 2 and 3 find nothing
NoStructuredForm ==
    /\ Method1(OutputText) = None
    /\ Method2(OutputText) = None
    /\ Method3(OutputText, lastfix.file) = None

(* C4: no-op safety: if every extraction strategy fails on the oracle's    *)
(* response (no JSON with fixed_content, no fixed_content field, no        *)
(* structural anchor, no trigger substring in the original), the content   *)
(* returned by ai_analyze_and_fix equals the original content, the changes *)
(* list is empty, and apply_ai_fixes leaves the file on disk unchanged.    *)
C4_NoOpSafety ==
    (Answered /\ NoStructuredForm /\ ~HasTrigger(lastfix.original))
        => /\ ResultField("fixed_content", None) = PStr(lastfix.original)
           /\ ResultField("changes_made", None) = PList(<<>>)
           /\ ~lastfix.wrote
           /\ lastfix.after = lastfix.original
           /\ fs[lastfix.file] = lastfix.original

C4_Witness ==
    /\ Answered /\ NoStructuredForm /\ ~HasTrigger(lastfix.original)
    /\ lastfix.outcome.text # <<>>
    /\ lastfix.analysis.method = 5

MinFixLength == 50

\* the structural sanity check of a candidate: it holds the anchor of its file type
StructurallySane(text, file_path) == CodeMatch(text, file_path) # None

(* C5: acceptance gate: a candidate replacement is written to the file     *)
(* only if it differs from the original content, exceeds the minimum       *)
(* plausible length, passes the structural sanity check of the file type   *)
(* and at least one change description was produced; a candidate that is   *)
(* identical to the original, too short or structurally invalid is         *)
(* rejected and the original file is kept.                                 *)
C5_AcceptanceGate ==
    lastfix.op = "apply" =>
        LET candidate == ResultField("fixed_content", PStr(lastfix.original))
            changes == ResultField("changes_made", PList(<<>>))
            accepted == /\ candidate.kind = "str"
                        /\ candidate.v # lastfix.original
                        /\ TextLen(candidate.v) > MinFixLength
                        /\ StructurallySane(candidate.v, lastfix.file)
                        /\ changes.kind = "list" /\ Len(changes.v) >= 1 IN
        /\ lastfix.wrote => accepted
        /\ ~accepted => lastfix.after = lastfix.original

\* the result of the first strategy that finds something, each strategy
\* taken on its own
FirstMatch ==
    LET m1 == Method1(OutputText)
        m2 == Method2(OutputText)
        m3 == Method3(OutputText, lastfix.file)
        m4 == Method4(lastfix.original) IN
    IF m1 # None THEN [method |-> 1, result |-> m1]
    ELSE IF m2 # None THEN [method |-> 2, result |-> m2]
    ELSE IF m3 # None THEN [method |-> 3, result |-> m3]
    ELSE IF m4 # None THEN [method |-> 4, result |-> m4]
    ELSE [method |-> 5, result |-> FinalFallback(lastfix.original)]

(* C6: the extraction chain is first-match in a fixed order: strategies    *)
(* 1 (JSON parse), 2 (fixed_content field), 3 (structural anchor block),   *)
(* 4 (substitution table on the original), 5 (no-op) are tried in that     *)
(* order, strategy k only if every strategy before it produced no result,  *)
(* and the returned result is that of the first strategy that succeeded,   *)
(* never overwritten by a later one.                                       *)
C6_FirstMatchOrder ==
    Answered =>
        /\ lastfix.analysis.method = FirstMatch.method
        /\ lastfix.analysis.ai_result = FirstMatch.result
        /\ lastfix.analysis.tried = [k \in 1..FirstMatch.method |-> k]

\* strategy 1 won on an answer where strategy 2 would have given another result
C6_Witness ==
    /\ Answered
    /\ lastfix.analysis.method = 1
    /\ Method2(OutputText) # None
    /\ Method2(OutputText) # lastfix.analysis.ai_result
    /\ Method4(lastfix.original) # None

\* the JSON document of the answer, parsed whole
Payload == json_loads(lastfix.outcome.json_block)
ValidJsonAnswer ==
    /\ Answered
    /\ lastfix.outcome.json_block # <<>>
    /\ Payload # None
    /\ Get(Payload, Key("fixed_content"), None) # None

(* C7: given a response that contains a valid fenced JSON object with the  *)
(* fixed_content key, and also anchor-delimited text, strategy 1 wins: the *)
(* issues, fixed_content and changes_made returned are exactly those of    *)
(* the parsed JSON object, for every valid JSON payload, including ones    *)
(* whose fixed_content or issue list contains nested braces.               *)
C7_JsonParseWins ==
    (/\ ValidJsonAnswer
     /\ Contains(lastfix.outcome.text, Fenced(lastfix.outcome.json_block))
     /\ CodeMatch(OutputText, lastfix.file) # None)
        => /\ lastfix.analysis.method = 1
           /\ lastfix.analysis.ai_result = Payload

\* the substitution table, and where its triggers stand in a text
Table == {<<Trigger1, Literal1>>, <<Trigger2, Literal2>>, <<Trigger3, Literal3>>}
Occurrences(text) ==
    {[at |-> j, trigger |-> row[1], literal |-> row[2]] :
        j \in 1..Len(text), row \in Table}
TriggerOccurrences(text) == {o \in Occurrences(text) : At(text, o.trigger, o.at)}
Disjoint(occurrences) ==
    \A a, b \in occurrences :
        a # b => \/ a.at + Len(a.trigger) <= b.at
                 \/ b.at + Len(b.trigger) <= a.at

RECURSIVE Substitute(_, _)
\* the text with each of the given occurrences replaced by its literal
Substitute(text, occurrences) ==
    IF occurrences = {} THEN text
    ELSE LET o == CHOOSE a \in occurrences : \A b \in occurrences : b.at <= a.at IN
         Substitute(Upto(text, o.at) \o o.literal \o From(text, o.at + Len(o.trigger)),
                    occurrences \ {o})

\* out is text with trigger occurrences replaced by their literals and
\* everything else left as it is
Substituted(text, out) ==
    \E chosen \in SUBSET TriggerOccurrences(text) :
        Disjoint(chosen) /\ Substitute(text, chosen) = out

C9_EmptyChangesNeverApplied ==
    (ValidJsonAnswer /\ Get(Payload, Key("changes_made"), None) = PList(<<>>))
        => /\ lastfix.after = lastfix.original
           /\ fs[lastfix.file] = lastfix.original
           /\ Len(fixes_applied) = lastfix.entries

\* the invocation failed: it raised, or it gave no usable output
OracleFailed ==
    /\ lastfix.op = "apply"
    /\ \/ lastfix.outcome \in {Raise, Malformed}
       \/ (lastfix.outcome.kind = "Reply" /\ OutputText = <<>>)

(* C10: a failed oracle call is never retried and degrades straight to the *)
(* deterministic fallback: the model is invoked at most once for the file, *)
(* and when that invocation fails (exception or no output) the file's      *)
(* result is the one the substitution-table strategy produces on the       *)
(* original content.                                                       *)
C10_FailedCallDegrades ==
    /\ lastfix.op = "apply" => lastfix.analysis.invocations <= 1
    /\ (OracleFailed /\ HasTrigger(lastfix.original))
          => lastfix.analysis.ai_result = Method4(lastfix.original)

(***************************************************************************)
(* Part III.  compliance_scanner.py: ComplianceScanner.run                 *)
(*                                                                         *)
(* One process: __init__ loads the cache, run() collects the candidate     *)
(* files, scans them in order, prints the summary and writes the report,   *)
(* uploads it and comments on the pull request, saves the cache and        *)
(* returns the exit code.  run.pc is the position in run(); "crashed" is   *)
(* an exception that left run().                                           *)
(***************************************************************************)

extensions ==
    <<".py", ".js", ".ts", ".tf", ".tfvars", ".yaml", ".yml", ".java", ".go",
      ".sh", "Dockerfile">>

\* the name of the file ends with ext
EndsWith(filepath, ext) ==
    IF ext = "Dockerfile" THEN filepath.dockerfile /\ filepath.ext = ""
    ELSE filepath.ext = ext

PathOrder == <<PyPath, DockerPy, JsPath, TfPath, BinPath>>

\* glob.glob(f"**/*{ext}", recursive=True) on the tree d
FilesFor(d, ext) ==
    SelectSeq(PathOrder, LAMBDA p : d[p] # NoFile /\ EndsWith(p, ext))

RECURSIVE collect_files(_, _)
\* files.extend(...) for the extensions from the k-th on
collect_files(d, k) ==
    IF k > Len(extensions) THEN <<>>
    ELSE FilesFor(d, extensions[k]) \o collect_files(d, k + 1)

\* the cache documents a process can find: those of InitialStores, a JSON
\* document that is not an object, and a cache holding an entry written
\* before the retention window began (timestamps count from the start of
\* the window, so that entry has a negative one)
NotMappingCache == [p \in Paths |-> NotMapping]
ExpiredCache ==
    [EmptyCache EXCEPT ![PyPath] =
        [kind |-> "Entry", hash |-> SHA256(CodeB), has_result |-> TRUE,
         result |-> None, timestamp |-> -1]]
RunStores == InitialStores \cup {Stored(NotMappingCache), Stored(ExpiredCache)}

StoreKind(store) ==
    IF ~store.readable THEN "corrupt"
    ELSE IF ~IsMapping(store.data) THEN "notmapping"
    ELSE "mapping"

\* the working tree of a run: app.py, app.js with an unpinned require, and
\* blob.bin
RunTree ==
    [p \in Paths |-> IF p \in {TfPath, DockerPy} THEN NoFile
                     ELSE IF p = JsPath THEN CodeJs ELSE CodeA]

\* a second working tree: dockerfiles/app.py, a long file, alone
LongTree == [p \in Paths |-> IF p = DockerPy THEN CodeLong ELSE NoFile]

RunTrees == {RunTree, LongTree}

ExitCode(n) == [kind |-> "ExitCode", code |-> n]

\* the values of MAX_FILES_SCAN: unset (0, no limit) and 1
MaxFilesScan == {0, 1}

\* files if max_files == 0 else files[:max_files]
files_to_scan(files, max_files) ==
    IF max_files = 0 THEN files
    ELSE SubSeq(files, 1, Min({max_files, Len(files)}))

\* code_snippet[:500]
SnippetLimit == 500

\* the query of query_kb_for_rules: one request, carrying the question and
\* code_snippet[:500]
kb_query(code) ==
    [requests |-> 1, code_chars |-> Min({code.len, SnippetLimit})]

\* __init__ and the start of run(auto_fix), up to the scan loop
InitRun ==
    /\ disk \in RunTrees
    /\ cache_store \in RunStores
    /\ file_cache = load_cache(cache_store)
    /\ ai_calls = 0
    /\ total_cost = 0
    /\ scans = 0
    /\ edits = 0
    /\ unmodified = {}
    /\ persisted_unmodified = {}
    /\ last = Idle
    /\ FixIdle
    /\ peers = NoPeers
    /\ \E auto_fix \in BOOLEAN, require_kb \in BOOLEAN, github \in BOOLEAN :
       \E max_files \in MaxFilesScan :
          run = [pc |-> "scan", auto_fix |-> auto_fix,
                 require_kb |-> require_kb, github_actions |-> github,
                 max_files |-> max_files,
                 store |-> StoreKind(cache_store),
                 files |-> collect_files(disk, 1),
                 todo |-> files_to_scan(collect_files(disk, 1), max_files),
                 scanned |-> <<>>, invocations |-> 0, results |-> <<>>,
                 report |-> None, publish |-> "none", exit_code |-> None,
                 save |-> "none", log |-> NoScan]

\* what one iteration of the scan loop did, for the claims
ScanLog(f, ext, r) ==
    LET detected == r.kb_queries = 1
                    /\ ~(run.require_kb
                         /\ KbUnavailable(query_kb_for_rules(ext.kb)))
        fixing == r.invoked > (IF detected THEN 1 ELSE 0) IN
    [op |-> "scan", path |-> f, mapping |-> IsMapping(file_cache),
     kb_unavailable |-> KbUnavailable(query_kb_for_rules(ext.kb)),
     detect |-> IF detected THEN ext.detect.kind ELSE "none",
     fix |-> IF fixing THEN ext.fix.kind ELSE "none",
     raised |-> r.raised, scanned |-> r.kb_queries = 1,
     returned |-> r.returned, oracle_calls |-> r.invoked,
     counted |-> r.calls, cost |-> r.cost,
     kb_requests |-> r.kb_queries * kb_query(disk[f]).requests,
     kb_chars |-> r.kb_queries * kb_query(disk[f]).code_chars,
     code_len |-> disk[f].len,
     cache_same |-> r.file_cache = file_cache, disk_same |-> r.disk = disk]

\* `result = self.scan_file(f, auto_fix)` and `if result:
\* results.append(result)`, one iteration of the loop of run()
RunScanFile ==
    /\ run.pc = "scan"
    /\ run.todo # <<>>
    /\ \E ext \in ExternalOutcomes(disk, file_cache, Head(run.todo),
                                   run.auto_fix) :
       \E r \in {scan_file(disk, file_cache, Head(run.todo), run.auto_fix,
                          run.require_kb, ext, scans + 1)} :
          /\ disk' = r.disk
          /\ file_cache' = r.file_cache
          /\ ai_calls' = ai_calls + r.calls
          /\ total_cost' = total_cost + r.cost
          /\ scans' = scans + 1
          /\ run' = [run EXCEPT
                       !.pc = IF r.raised THEN "crashed" ELSE "scan",
                       !.exit_code = IF r.raised THEN ExitCode(1) ELSE None,
                       !.todo = Tail(run.todo),
                       !.scanned = Append(run.scanned, Head(run.todo)),
                       !.invocations = run.invocations + r.invoked,
                       !.results = IF ~r.raised /\ r.returned # None
                                   THEN Append(run.results, r.returned)
                                   ELSE run.results,
                       !.log = ScanLog(Head(run.todo), ext, r)]
    /\ UNCHANGED <<cache_store, edits, unmodified, persisted_unmodified,
                   last, fix_vars,
                   peer_vars>>

\* the "Top Issues" print reads i['description'] of the first two issues
\* of the first three results: KeyError when one has no description
SummaryRaises(results) ==
    \E k \in 1..Min({3, Len(results)}) :
       \E j \in 1..Min({2, Len(results[k].issues)}) :
          ~results[k].issues[j].has_description

RECURSIVE total_issues(_)
total_issues(results) ==
    IF results = <<>> THEN 0
    ELSE Len(Head(results).issues) + total_issues(Tail(results))

\* the positions <<k, j>> of the issues of the results
IssueIndex(results) ==
    UNION {{<<k, j>> : j \in 1..Len(results[k].issues)} :
              k \in 1..Len(results)}

\* by_severity: the four keys it starts with and every other severity met
by_severity(results) ==
    [s \in {"critical", "high", "medium", "low"}
            \cup {results[i[1]].issues[i[2]].severity :
                     i \in IssueIndex(results)}
       |-> Cardinality({i \in IssueIndex(results) :
                           results[i[1]].issues[i[2]].severity = s})]

\* compliance_summary: per standard of a result's compliance_violations,
\* the files, len(result['issues']) summed, and the critical and high
\* issues of those results
compliance_summary(results) ==
    [v \in UNION {results[k].compliance_violations : k \in 1..Len(results)}
       |-> LET touched == SelectSeq(results,
                             LAMBDA r : v \in r.compliance_violations)
               mine == {i \in IssueIndex(results) :
                           v \in results[i[1]].compliance_violations}
           IN [files |-> [k \in 1..Len(touched) |-> touched[k].filepath],
               issues |-> Cardinality(mine),
               critical |-> Cardinality({i \in mine :
                   results[i[1]].issues[i[2]].severity = "critical"}),
               high |-> Cardinality({i \in mine :
                   results[i[1]].issues[i[2]].severity = "high"})]]

\* by_severity['critical']
critical_count(results) ==
    Cardinality({<<k, j>> \in (1..Len(results)) \X (1..3) :
                    /\ j <= Len(results[k].issues)
                    /\ results[k].issues[j].severity = "critical"})

\* the compliance summary, the prints and the writing of
\* compliance_report.json
RunReport ==
    /\ run.pc = "scan"
    /\ run.todo = <<>>
    /\ run' = IF SummaryRaises(run.results)
              THEN [run EXCEPT !.pc = "crashed", !.exit_code = ExitCode(1)]
              ELSE [run EXCEPT
                      !.pc = "publish",
                      !.report =
                          [kind |-> "Report",
                           files_scanned |-> Len(run.files),
                           total_issues |-> total_issues(run.results),
                           fixed |-> IF run.auto_fix
                                     THEN Len(SelectSeq(run.results,
                                                        LAMBDA r : r.fixed))
                                     ELSE 0,
                           critical |-> critical_count(run.results),
                           by_severity |-> by_severity(run.results),
                           compliance_summary |->
                               compliance_summary(run.results),
                           ai_calls |-> ai_calls,
                           cost |-> total_cost,
                           results |-> run.results]]
    /\ UNCHANGED <<scan_vars, fix_vars,
                   peer_vars>>

\* upload_to_s3 and post_pr_comment: each catches what its request raises
RunPublish ==
    /\ run.pc = "publish"
    /\ \E outcome \in {"published", "failed"} :
          run' = [run EXCEPT !.pc = "save", !.publish = outcome]
    /\ UNCHANGED <<scan_vars, fix_vars,
                   peer_vars>>

\* save_cache, which catches what the writing raises, and the exit code
RunSaveCache ==
    /\ run.pc = "save"
    /\ \E outcome \in {"saved", "failed"} :
          /\ cache_store' = IF outcome = "saved" THEN Stored(file_cache)
                            ELSE cache_store
          /\ run' = [run EXCEPT
                       !.pc = "done", !.save = outcome,
                       !.exit_code =
                           IF run.report.critical > 0 /\ run.github_actions
                              /\ ~run.auto_fix
                           THEN ExitCode(1) ELSE ExitCode(0)]
    /\ UNCHANGED <<disk, file_cache, ai_calls, total_cost, scans, edits,
                   unmodified, persisted_unmodified, last, fix_vars,
                   peer_vars>>

NextRun == RunScanFile \/ RunReport \/ RunPublish \/ RunSaveCache

SpecRun == InitRun /\ [][NextRun]_vars

(***************************************************************************)
(* Part IV.  Two runs of ComplianceScanner on one global cache object      *)
(* (REPORTS_S3_BUCKET set): each loads cache/global_compliance_cache.json  *)
(* whole in __init__, scans its file, and puts its whole file_cache back   *)
(* in save_cache.  Each run has its own checkout of the tree and its own   *)
(* counters.                                                               *)
(***************************************************************************)
Peers == {1, 2}

\* the file each run finds changed in its branch and scans
PeerFile(i) == IF i = 1 THEN PyPath ELSE TfPath

\* the global cache before the two runs: empty, or holding the entry of a
\* file of another branch
PriorCache ==
    [EmptyCache EXCEPT ![JsPath] =
        [kind |-> "Entry", hash |-> SHA256(CodeJs), has_result |-> TRUE,
         result |-> None, timestamp |-> 0]]
SharedStores == {Stored(EmptyCache), Stored(PriorCache)}

InitShared ==
    /\ disk = Tree
    /\ cache_store \in SharedStores
    /\ file_cache = EmptyCache
    /\ ai_calls = 0
    /\ total_cost = 0
    /\ scans = 0
    /\ edits = 0
    /\ unmodified = {}
    /\ persisted_unmodified = {}
    /\ last = Idle
    /\ FixIdle
    /\ run = RunIdle
    /\ peers = [prior |-> cache_store,
                proc |-> [i \in Peers |->
                            [pc |-> "start", file_cache |-> EmptyCache,
                             ai_calls |-> 0, stored |-> {},
                             save |-> "none"]]]

\* __init__ of run i: self.file_cache = self.load_cache()
PeerLoad(i) ==
    /\ peers.proc[i].pc = "start"
    /\ peers' = [peers EXCEPT !.proc[i].pc = "scan",
                              !.proc[i].file_cache = load_cache(cache_store)]
    /\ UNCHANGED <<scan_vars, fix_vars, run_vars>>

\* the scan loop of run i: scan_file on its file, auto_fix off
PeerScan(i) ==
    /\ peers.proc[i].pc = "scan"
    /\ \E ext \in ExternalOutcomes(disk, peers.proc[i].file_cache,
                                   PeerFile(i), FALSE) :
       \E r \in {scan_file(disk, peers.proc[i].file_cache, PeerFile(i),
                          FALSE, FALSE, ext, 1)} :
          peers' = [peers EXCEPT
                      !.proc[i].pc = "save",
                      !.proc[i].file_cache = r.file_cache,
                      !.proc[i].ai_calls = peers.proc[i].ai_calls + r.calls,
                      !.proc[i].stored =
                          IF r.file_cache[PeerFile(i)]
                                # peers.proc[i].file_cache[PeerFile(i)]
                          THEN {PeerFile(i)} ELSE {}]
    /\ UNCHANGED <<scan_vars, fix_vars, run_vars>>

\* save_cache of run i: put_object of the whole file_cache, or the put
\* raising, which save_cache catches
PeerSave(i) ==
    /\ peers.proc[i].pc = "save"
    /\ \E outcome \in {"saved", "failed"} :
          /\ cache_store' = IF outcome = "saved"
                            THEN Stored(peers.proc[i].file_cache)
                            ELSE cache_store
          /\ peers' = [peers EXCEPT !.proc[i].pc = "done",
                                    !.proc[i].save = outcome]
    /\ UNCHANGED <<disk, file_cache, ai_calls, total_cost, scans, edits,
                   unmodified, persisted_unmodified, last, fix_vars,
                   run_vars>>

NextShared == \E i \in Peers : PeerLoad(i) \/ PeerScan(i) \/ PeerSave(i)

SpecShared == InitShared /\ [][NextShared]_vars

(***************************************************************************)
(*              Claims about the oracle client and the run                 *)
(***************************************************************************)

OracleFailures == {Raise, Malformed}

(* C11: the oracle client never propagates an exception.  For every        *)
(* invocation that fails in the transport (raise) or in the parsing of     *)
(* the response (malformed), call_ai_with_compliance logs the error and    *)
(* returns None without raising; and a scan whose only oracle call was a   *)
(* failed detection call goes on to its end (on a cache that is a          *)
(* mapping).                                                               *)
C11_OracleFailureIsAbsentOutput ==
    /\ \A outcome \in OracleFailures :
          LET call == call_ai_with_compliance(CodeA.len, outcome) IN
          call.output = None /\ ~call.raised /\ call.logged
    /\ (run.log.op = "scan" /\ run.log.detect \in {"raise", "malformed"}
        /\ run.log.fix = "none" /\ run.log.mapping)
          => ~run.log.raised

(* A run that went to its end although the detection call of its last      *)
(* scan raised.                                                            *)
C11_Witness ==
    /\ run.pc = "done"
    /\ run.log.detect = "raise"
    /\ run.log.oracle_calls = 1
    /\ ~run.log.raised

(* C12: the run always completes and emits a report: no exception leaves   *)
(* run(), and a run that is done has gone through all candidate files,     *)
(* has written the report and has an exit code.                            *)
C12_RunAlwaysCompletes ==
    /\ run.pc # "crashed"
    /\ run.pc = "done" =>
          run.todo = <<>> /\ run.report # None /\ run.exit_code # None

(* C13: a corrupt, unreadable or non-mapping cache document degrades to    *)
(* an empty cache and never blocks scanning: the cache of the new process  *)
(* is empty, and every candidate file is scanned as a miss (its scan       *)
(* reaches the detection and does not raise).                              *)
C13_BadStoreNeverBlocksScanning ==
    run.store \in {"corrupt", "notmapping"} =>
       /\ scans = 0 => file_cache = EmptyCache
       /\ run.log.op = "scan" => run.log.scanned /\ ~run.log.raised

(* C14: after scan_file has processed a cache miss for a candidate file    *)
(* (a readable file of a mapped language, with auto_fix on or no result    *)
(* to return from the cache) and has returned, file_cache holds an entry   *)
(* for the path whose result is the returned value, also when that is no   *)
(* issue at all, and whose hash is the digest of the file's content.       *)
C14_MissStoresFinalResult ==
    [][(/\ scans' = scans + 1
        /\ ~last'.raised
        /\ disk[last'.path] # NoFile
        /\ ext_map(last'.path.ext) # "Unknown"
        /\ (last'.auto_fix
            \/ get_cached_result(disk, file_cache, last'.path) = None))
       => /\ file_cache'[last'.path].kind = "Entry"
          /\ file_cache'[last'.path].result = last'.returned
          /\ file_cache'[last'.path].hash = SHA256(disk'[last'.path])]_vars

(* A scan of a clean file that called the oracle, returned None and left   *)
(* an entry holding None under the digest of the content.                  *)
C14_Witness ==
    /\ last.op = "scan"
    /\ last.oracle_calls = 1
    /\ last.returned = None
    /\ file_cache[last.path].kind = "Entry"
    /\ file_cache[last.path].timestamp = scans
    /\ file_cache[last.path].result = None
    /\ file_cache[last.path].hash = SHA256(disk[last.path])

(* C15: store overwrites and lookup returns what was stored: on every      *)
(* reachable cache and for every readable path, update_file_cache(path,    *)
(* result) leaves for the path exactly the new entry (nothing of the       *)
(* previous entry), leaves the other paths alone, a lookup with the        *)
(* content unchanged returns exactly that result, and storing the same     *)
(* result again leaves the same hash and result.                           *)
C15_StoreOverwritesLookupReturns ==
    \A p \in Paths : \A res \in {None, last.returned} :
       disk[p] # NoFile =>
          LET fc1 == update_file_cache(disk, file_cache, p, res, scans + 1)
              fc2 == update_file_cache(disk, fc1, p, res, scans + 2) IN
          /\ fc1[p] = [kind |-> "Entry", hash |-> SHA256(disk[p]),
                       has_result |-> TRUE, result |-> res,
                       timestamp |-> scans + 1]
          /\ \A q \in Paths \ {p} : fc1[q] = file_cache[q]
          /\ get_cached_result(disk, fc1, p) = res
          /\ fc2[p].hash = fc1[p].hash
          /\ fc2[p].result = fc1[p].result

(* The second scan of a path replaced the entry the first had stored, and  *)
(* the lookup returns the result of the second.                            *)
C15_Witness ==
    /\ last.op = "scan"
    /\ last.rescan
    /\ last.returned # None
    /\ ~last.cache_same
    /\ file_cache[last.path].kind = "Entry"
    /\ file_cache[last.path].timestamp = 2
    /\ get_cached_result(disk, file_cache, last.path) = last.returned

(* C16: the cache is persisted at the end of every run, whatever happens   *)
(* in report generation, upload or commenting: once run() has been left,   *)
(* normally or by an exception, and the write of the cache document did    *)
(* not itself fail, the document holds the in-memory cache (or the cache   *)
(* is still what was loaded from it).                                      *)
C16_CacheFlushedOnEveryExit ==
    (run.pc \in {"done", "crashed"} /\ run.save # "failed")
       => \/ cache_store = Stored(file_cache)
          \/ file_cache = load_cache(cache_store)

(* C17: entries older than the retention window are evicted on load: the   *)
(* cache of a run holds no entry whose timestamp lies before the window    *)
(* (a negative scan count).                                                *)
C17_ExpiredEntriesEvictedOnLoad ==
    run.pc # "idle" =>
       \A p \in Paths :
          file_cache[p].kind = "Entry" => file_cache[p].timestamp >= 0

(* C18: scan_file overwrites the file only when auto_fix is on and the     *)
(* fix was accepted, and exactly then the result is marked fixed; with     *)
(* auto_fix off the file is never modified and the result carries          *)
(* fixed = false.                                                          *)
C18_FixedExactlyWhenOverwritten ==
    (last.op = "scan" /\ ~last.raised) =>
       LET marked == last.returned # None /\ last.returned.fixed IN
       IF last.auto_fix THEN marked <=> ~last.disk_same
       ELSE last.disk_same /\ ~marked

(* C19: the mandatory-context policy is honoured: with REQUIRE_KB on and   *)
(* the knowledge-base lookup failed or empty, the scan of the file makes   *)
(* no oracle call; otherwise the analysis proceeds and the oracle is       *)
(* invoked.                                                                *)
C19_RequireKbBlocksOracle ==
    (run.log.op = "scan" /\ run.log.scanned) =>
       IF run.require_kb /\ run.log.kb_unavailable
       THEN run.log.oracle_calls = 0
       ELSE run.log.oracle_calls >= 1

(* External outcomes under which a scanned file would yield a result       *)
AnswerForAnyFile ==
    [vulns |-> <<>>, kb |-> [kind |-> "raise"],
     detect |-> Text("array", <<ItemHigh>>, None, 40), fix |-> Raise]

(* C20: files with an unmapped extension are excluded: every candidate of  *)
(* the run ends with a listed extension (or is a Dockerfile) and has a     *)
(* mapped language, blob.bin is on disk and is no candidate, scan_file on  *)
(* a path of Unknown language returns None without an oracle call, a       *)
(* knowledge-base query or a cache entry, and no result of the run is for  *)
(* such a path.                                                            *)
C20_UnmappedExtensionExcluded ==
    /\ \A k \in 1..Len(run.files) :
          /\ \E e \in 1..Len(extensions) : EndsWith(run.files[k], extensions[e])
          /\ detect_language_and_framework(
                 run.files[k], disk[run.files[k]]).language # "Unknown"
    /\ \A k \in 1..Len(run.results) :
          run.results[k].language # "Unknown"
    /\ \A auto_fix \in BOOLEAN :
          LET r == scan_file(disk, file_cache, BinPath, auto_fix, FALSE,
                             AnswerForAnyFile, scans + 1) IN
          /\ r.returned = None
          /\ ~r.raised
          /\ r.invoked = 0
          /\ r.kb_queries = 0
          /\ r.file_cache = file_cache

(* A finished run over a tree that holds blob.bin: its two candidates were *)
(* scanned and reported, blob.bin was not.                                 *)
C20_Witness ==
    /\ run.pc = "done"
    /\ disk[BinPath] # NoFile
    /\ Len(run.files) = 2
    /\ run.report.files_scanned = 2
    /\ Len(run.results) = 2
    /\ file_cache[BinPath] = NoEntry

(***************************************************************************)
(*       Claims about classification, exit code, accounting, report        *)
(***************************************************************************)

(* the language the stated rule gives a path                               *)
LanguageByExtension(filepath) ==
    IF ext_map(filepath.ext) # "Unknown" THEN ext_map(filepath.ext)
    ELSE IF filepath.stem = "Dockerfile" THEN "Docker"
    ELSE "Unknown"

(* C21: classification is by a closed extension-to-language mapping: a     *)
(* path with a mapped extension gets that extension's language, a file     *)
(* named Dockerfile gets Docker, every other path gets Unknown; a path     *)
(* with a mapped extension is never given another language because of      *)
(* other parts of its name or directory.  Stated of every file scan_file   *)
(* was called on in a run and of every result of the run.                  *)
C21_ClassifiedByExtensionOnly ==
    /\ run.log.op = "scan" =>
          detect_language_and_framework(
              run.log.path, disk[run.log.path]).language
             = LanguageByExtension(run.log.path)
    /\ \A k \in 1..Len(run.results) :
          run.results[k].language
             = LanguageByExtension(run.results[k].filepath)

(* C22: the process exit code is 1 only when critical issues remain and    *)
(* the run is in blocking CI mode: once the process has ended, its exit    *)
(* code is 1 only if at least one issue of the results is critical,        *)
(* GITHUB_ACTIONS is 'true' and auto_fix is off, and it is 0 in every      *)
(* other case, whatever oracle, context, cache or validation failure the   *)
(* run met.                                                                *)
C22_ExitCodeOneOnlyWhenBlocking ==
    run.pc \in {"done", "crashed"} =>
       IF critical_count(run.results) > 0 /\ run.github_actions
          /\ ~run.auto_fix
       THEN run.exit_code \in {ExitCode(0), ExitCode(1)}
       ELSE run.exit_code = ExitCode(0)

(* C23: every oracle call is accounted: each invocation of the model,      *)
(* whether it succeeds or fails, adds one to ai_calls and its cost to      *)
(* total_cost, so ai_calls is the number of invocations made so far, a     *)
(* scan that invoked the model added to the cost, and the report's         *)
(* ai_calls is the number of invocations of the run.                       *)
C23_EveryOracleCallAccounted ==
    /\ ai_calls = run.invocations
    /\ run.log.op = "scan" =>
          /\ run.log.counted = run.log.oracle_calls
          /\ run.log.oracle_calls > 0 => run.log.cost > 0
    /\ run.report # None => run.report.ai_calls = run.invocations

(* C24: every issue of every result has a severity among critical, high,   *)
(* medium and low and a line >= 1, whichever check found it; hence the     *)
(* report's by_severity has exactly those four keys and its counts sum to  *)
(* total_issues.                                                           *)
C24_SeverityAndLineDomain ==
    /\ \A i \in IssueIndex(run.results) :
          /\ run.results[i[1]].issues[i[2]].severity
                \in {"critical", "high", "medium", "low"}
          /\ run.results[i[1]].issues[i[2]].line >= 1
    /\ run.report # None =>
          /\ DOMAIN run.report.by_severity
                = {"critical", "high", "medium", "low"}
          /\ run.report.by_severity["critical"]
               + run.report.by_severity["high"]
               + run.report.by_severity["medium"]
               + run.report.by_severity["low"] = run.report.total_issues

(* C25: a knowledge-context query longer than the provider's ceiling       *)
(* (18000 characters) is split into at least two chunks, each within the   *)
(* ceiling and each queried on its own, so that the requests of a scan     *)
(* carry the whole of a file longer than the ceiling.                      *)
C25_LongQueryIsChunked ==
    (run.log.op = "scan" /\ run.log.scanned) =>
       /\ run.log.kb_chars <= 18000 * run.log.kb_requests
       /\ run.log.code_len > 18000 =>
             /\ run.log.kb_requests >= 2
             /\ run.log.kb_chars = run.log.code_len

(* C26: every cache entry pairs a hash with a result computed from the     *)
(* content that has that hash: whenever a scan_file call writes the entry  *)
(* of its path, the hash of the new entry is the digest of the content     *)
(* the call read and analysed, also when auto-fix overwrote the file       *)
(* during that scan.                                                       *)
C26_EntryHashIsOfScannedContent ==
    [][(/\ scans' = scans + 1
        /\ ~last'.raised
        /\ disk[last'.path] # NoFile
        /\ file_cache'[last'.path] # file_cache[last'.path])
       => /\ file_cache'[last'.path].kind = "Entry"
          /\ file_cache'[last'.path].result = last'.returned
          /\ file_cache'[last'.path].hash = SHA256(disk[last'.path])]_vars

(* C28: an analysis that did not complete is never stored as a completed   *)
(* one: when the detection call of a scan failed, or the mandatory         *)
(* knowledge context was unavailable, the entry the scan leaves for the    *)
(* file holds no result, so that the next scan of the unchanged file is    *)
(* no cache hit.                                                           *)
C28_IncompleteAnalysisNotCached ==
    (/\ run.log.op = "scan"
     /\ run.log.scanned
     /\ ~run.log.raised
     /\ IsMapping(file_cache)
     /\ \/ run.log.detect \in {"raise", "malformed"}
        \/ run.require_kb /\ run.log.kb_unavailable)
       => /\ file_cache[run.log.path].kind = "Entry"
             => file_cache[run.log.path].result = None
          /\ get_cached_result(disk, file_cache, run.log.path) = None

(* the issues of the results that name the standard v themselves           *)
OwnIssues(results, v) ==
    {i \in IssueIndex(results) :
        \E n \in DOMAIN results[i[1]].issues[i[2]].compliance_violations :
           results[i[1]].issues[i[2]].compliance_violations[n] = v}

(* C29: the per-standard aggregation counts each standard's own issues:    *)
(* for every standard of the report's compliance_summary, issues is the    *)
(* number of issues of the results whose compliance_violations holds the   *)
(* standard, critical and high are the numbers of those with that          *)
(* severity, and files lists each file with such an issue exactly once.    *)
C29_SummaryCountsOwnIssues ==
    run.report # None =>
       \A v \in DOMAIN run.report.compliance_summary :
          LET entry == run.report.compliance_summary[v]
              own == OwnIssues(run.results, v) IN
          /\ entry.issues = Cardinality(own)
          /\ entry.critical = Cardinality({i \in own :
                run.results[i[1]].issues[i[2]].severity = "critical"})
          /\ entry.high = Cardinality({i \in own :
                run.results[i[1]].issues[i[2]].severity = "high"})
          /\ {entry.files[k] : k \in DOMAIN entry.files}
                = {run.results[i[1]].filepath : i \in own}
          /\ \A k, l \in DOMAIN entry.files :
                entry.files[k] = entry.files[l] => k = l

(* C30: the report's files_scanned is the number of files scan_file was    *)
(* called on in the run, for every value of MAX_FILES_SCAN; and every      *)
(* candidate is scanned at most once, so the results hold at most one      *)
(* entry per file.                                                         *)
C30_FilesScannedCountsScans ==
    /\ run.report # None => run.report.files_scanned = Len(run.scanned)
    /\ \A k, l \in DOMAIN run.scanned :
          run.scanned[k] = run.scanned[l] => k = l
    /\ \A k, l \in DOMAIN run.results :
          run.results[k].filepath = run.results[l].filepath => k = l

(* C27: when two runs share the global cache, each loading it whole at     *)
(* its start and writing it whole at its end, no stored entry is lost      *)
(* under any interleaving: once both runs have persisted, the global       *)
(* cache holds the entry each run stored for its file, and every entry     *)
(* that was there before for a file neither run scanned.                   *)
C27_NoEntryLostBetweenRuns ==
    (\A i \in Peers : peers.proc[i].pc = "done" /\ peers.proc[i].save = "saved")
       => /\ \A i \in Peers : \A p \in peers.proc[i].stored :
                load_cache(cache_store)[p] = peers.proc[i].file_cache[p]
          /\ \A p \in Paths \ {PeerFile(i) : i \in Peers} :
                load_cache(cache_store)[p] = load_cache(peers.prior)[p]

====
